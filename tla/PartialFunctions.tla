--------------------------- MODULE PartialFunctions ---------------------------
(* Functions whose domain is what has a value. TLC has these as :> and @@, of which the
   provers know nothing.                                                             *)

(* f with v at x. *)
Put(f, x, v) == [y \in DOMAIN f \cup {x} |-> IF y = x THEN v ELSE f[y]]

(* f laid over g. *)
Over(f, g) == [x \in DOMAIN f \cup DOMAIN g |-> IF x \in DOMAIN f THEN f[x] ELSE g[x]]
=============================================================================
