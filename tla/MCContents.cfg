CONSTANTS
    Cli = {a1, a2}
    Buyer = {b1}
    Id <- MCId
    Text = {t1, t2}
    Empty = Empty
    Prices <- MCPrices
    Cutset <- MCCutset
SPECIFICATION Spec
 
PROPERTIES OnlyAddAdds
SYMMETRY Symmetry
CHECK_DEADLOCK FALSE
