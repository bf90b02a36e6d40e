\* One walk over a small tree, with two moves while it goes on.
SPECIFICATION FairWalk
CONSTANTS
    root = root
    sub = sub
    outside = outside
    retro = retro
    other = other
    link = link
    Ids = {root, sub, outside, retro, other, link}
    Root = root
    Nowhere = Nowhere
    Trees <- SomeTrees
    Moves <- SomeMoves
    MaxMoves = 2
INVARIANTS
    ListingTrue
PROPERTIES
    WalkEnds
