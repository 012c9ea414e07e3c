SPECIFICATION Spec
CONSTANTS
    style_node = style_node
    fragment_node = fragment_node
    None = None
    Document = Document
    Nodes = {a, b, c, d, style_node, fragment_node}
    Ids = {i}
    Kind <- MCKind
    ElementIds = {e1, e2, e3}
    MaxInserted = 2
    HitElements = 4
    Scenarios = {"hits"}
SYMMETRY Symmetric
INVARIANTS
    PaintListsAreLive
CHECK_DEADLOCK FALSE
