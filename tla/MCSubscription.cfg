CONSTANTS
    q1 = q1
    q2 = q2
    x = x
    y = y
    h1 = h1
    h2 = h2
    h3 = h3
    Call <- MCCall
    Script <- MCScript
    Handler <- MCHandler
    NoHandler = NoHandler
SYMMETRY Symmetry
SPECIFICATION Spec
INVARIANTS TypeOK ListedIsWatched OthersAreOutlived
