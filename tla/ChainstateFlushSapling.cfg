CONSTANTS
    g = g
    a1 = a1
    a2 = a2
    b1 = b1
    o1 = o1
    o2 = o2
    Blocks = {g, a1, a2, b1}
    Genesis = g
    Parent <- MCParent
    Ancestors <- MCAncestors
    Outpoints = {o1, o2}
    Inputs <- MCInputs
    Outputs <- MCOutputs
    Utxo <- MCUtxo
    Shielded = {a1, a2}
    Null = Null
    Spent = Spent
    NoUndo = NoUndo
    MaxCrashes = 1
SPECIFICATION Spec
INVARIANT BestBlockMeansItsSapling
