SPECIFICATION Spec
CONSTANTS
    MaxDepth = 4
    Byte = 6
    ShowNum = 2
    MaxWindow = 6
    MaxDropped = 3
    Items <- MCItems
    Main = "main"
    None = None
INVARIANTS TypeOK DepthAgrees OpenIsPath ListFitsPath SelectionInList SelectionShown
PROPERTIES SearchSound
