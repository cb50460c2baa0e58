SPECIFICATION Spec
CONSTANTS
    Shapes <- MCShapes
    Clients = {c1, c2}
    Commands <- MCCommands
    Mine <- MCMine
    Others <- MCOthers
    MaxEvents = 4
    MaxChanges = 3
SYMMETRY Symmetric
INVARIANT Mirrors
INVARIANT ImageConsumed
INVARIANT FilterObeyed
CHECK_DEADLOCK FALSE
