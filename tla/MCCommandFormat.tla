-------------------------- MODULE MCCommandFormat --------------------------
(***************************************************************************)
(* The corner values of each parameter: its lowest bit, the highest bit    *)
(* its field has room for, the highest of its C type, all that fit.        *)
(***************************************************************************)
EXTENDS CommandFormat

MCSamples(width, usable) ==
    {{0}, {usable - 1}, {width - 1}, 0..(usable - 1)}
=============================================================================
