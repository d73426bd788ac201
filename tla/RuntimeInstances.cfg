CONSTANTS
    Instances = {i1, i2, i3}
    Calls = {c1, c2}
    None = None
SPECIFICATION Spec
SYMMETRY Symmetry

    
    
PROPERTIES
    QuarantinedNeverActivated
    
CHECK_DEADLOCK FALSE
