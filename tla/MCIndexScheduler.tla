-------------------------- MODULE MCIndexScheduler ----------------------------
(* Model checking instance of IndexScheduler: a volume with a file and a      *)
(* directory that holds a file, and a volume without entries of its own.      *)
EXTENDS IndexScheduler

CONSTANTS home, usb, a, d, b

MCParent == (a :> home) @@ (d :> home) @@ (b :> d)
MCAbove == (a :> {home}) @@ (d :> {home}) @@ (b :> {d, home})
MCListing == [ps \in SUBSET {a, d, b} |-> SelectSeq(<<a, d, b>>, LAMBDA p : p \in ps)]

===============================================================================
