-------------------------- MODULE MCTransitiveDeps --------------------------
(***************************************************************************)
(* Configurations of three repositories with one more name that is not     *)
(* configured.  Of the lists of at most two entries, MCDepLists keeps      *)
(* enough that self-loops, cycles of each length, diamonds, a name that is *)
(* waiting twice and broken dependencies, first or last, all occur.        *)
(***************************************************************************)
EXTENDS TransitiveDeps

CONSTANTS a, b, c, ghost

MCName == {a, b, c, ghost}
MCConfigured == {a, b, c}
MCDepLists ==
    {<<>>, <<a>>, <<b>>, <<c>>, <<ghost>>,
     <<a, b>>, <<b, c>>, <<c, b>>, <<c, ghost>>}
============================================================================
