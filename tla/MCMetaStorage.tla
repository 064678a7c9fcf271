--------------------------- MODULE MCMetaStorage ---------------------------
(***************************************************************************)
(* A small instance of MetaStorage: k1 in a storage with a limit, k2 in one *)
(* without, values of one and two units.                                    *)
(***************************************************************************)
EXTENDS MetaStorage

CONSTANTS k1, k2, a, b, c1, c2, c3

MCSize(v) == CASE v = a -> 1 [] v = b -> 2 [] OTHER -> 0
MCWithField(v) == b
MCReplicas == <<k1, k2>>

P(kind, k, to, v) == [kind |-> kind, key |-> k, to |-> to, val |-> v]
MCPrograms ==
  { P("set", k1, None, None), P("set", k1, None, b), P("set", k2, None, a),
    P("get", k2, None, None), P("open", k1, None, None),
    P("openw", k1, None, None), P("openw", k2, None, None),
    P("fscopy", k1, k2, None), P("fsmove", k1, k2, None),
    P("copy", k1, k2, None), P("move", k2, k1, None),
    P("fallback", None, None, None), P("replget", None, None, None),
    P("replset", None, None, a), P("cacheget", None, None, None),
    P("cacheset", None, None, b), P("fieldset", k1, None, None),
    P("fieldget", k2, None, None), P("futset", None, None, a),
    P("futset", None, None, b), P("futget", None, None, None) }

CallSymmetry == Permutations(Calls)
=============================================================================
