SPECIFICATION Spec
CONSTANTS
    Capacity = 9
    Radix = 3
    ByteLimit = 6
    Formats <- MCFormats
PROPERTIES FullStartsOver
