SPECIFICATION Spec
CONSTANTS
    style_node = style_node
    fragment_node = fragment_node
    None = None
    Document = Document
    Nodes = {a, b, c, style_node, fragment_node}
    Ids = {i}
    Kind <- MCKind
    ElementIds = {e1, e2, e3}
    MaxInserted = 2
    HitElements = 3
    Scenarios = {"ids", "pointer", "renders", "hits"}
SYMMETRY Symmetric
INVARIANTS
    TypeOK
    TreeIsConsistent
    ElementsAreFoundById
    NothingDangles
PROPERTIES
    HoverIsBridged
CHECK_DEADLOCK FALSE
