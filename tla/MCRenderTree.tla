----------------------------- MODULE MCRenderTree -----------------------------
EXTENDS RenderTree

CONSTANTS view, a, b, c, none

MCNodes == {view, a, b, c}
MCDisplayLists == {view, a}
MCSpare == {c}
MCPrograms == {{}, {BuildsInLayout}, {ChangesOutside}, {Throws},
               {KeepsSubtrees, ChangesOutside, BuildsInLayout}}
=============================================================================
