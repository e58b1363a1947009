\* Two lines, with paths whose nodes after the first are x, y, xy or x$.
CONSTANTS
    Lines <- MCLines
    Targets <- MCTargets
    Globs <- MCGlobs
    Letters = {"x", "y", "$"}
    MaxNode = 2
    MaxLines = 2
SPECIFICATION Spec
INVARIANTS
    SelectsMatching
    NamesReturn
    FindsChildren
