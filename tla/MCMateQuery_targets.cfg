\* Queries with graphite targets.
CONSTANTS
    Names = {"a", "b", "c", "f", "t", "q", "name", "alias", "ru", "freev", "maxv", "a_", "x", "g", "g1", "g02", "a.x", "b.y", "a.*", "a.x*.y", "a.{x", ".x", "__a_g1__", "__a_g2__", "__a_g3__", "__b_g1__", "__b_g2__", "__a__g1__", "__a__g2__", "a.[xy]", "a.[x-y].y", "a.{x,y}", "a.?", "a-b.x", "__a_b_g1__", "__a_b_g2__", "a_b"}
    AggrFuncs = {"sum"}
    ReservedFuncs = {"label_set", "clamp_min"}
    Durations = {"5m"}
    MaxNumber = 256
    Slices <- MCSlices
    MaxTemplates = 1
SPECIFICATION QuerySpec
INVARIANTS
    TargetsRewritten
    GroupsByOwnTarget
    ScansBack
