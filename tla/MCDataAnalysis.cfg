SPECIFICATION Spec
CONSTANTS
    Capacity = 9
    Radix = 3
    ByteLimit = 6
    Formats <- MCFormats
INVARIANTS TypeOK OwnIsFrame UntailedInStep
PROPERTIES BeforeKept
