------------------------------ MODULE Entities ------------------------------
(***************************************************************************)
(* aioworkers.core.context: how sections of the configuration become the    *)
(* entities of a context.  An object is known by the path under which the   *)
(* context holds it; what lies above is an Octopus.                         *)
(***************************************************************************)
EXTENDS Config

CONSTANTS
  GroupsOf(_),     \* a setting as a set of groups
  MakesEntity(_)   \* whether a function returns an entity

VARIABLE objects   \* what the context holds: the kind of each object, by path

-----------------------------------------------------------------------------
(* Groups                                                                  *)

Resolver(include, exclude, all) ==
  [include |-> include, exclude |-> exclude, all |-> all]
AllGroups == Resolver({}, {}, TRUE)

\* GroupResolver.match, with the default of those that main makes.
Match(r, groups) ==
  \/ groups = {}
  \/ r.all /\ groups \cap r.exclude = {}
  \/ ~r.all /\ groups \cap r.include # {}

Groups(p) ==
  LET g == Append(p, "groups") IN IF Has(tree, g) THEN GroupsOf(tree[g]) ELSE {}
\* The loop over the items of a mapping gives a path one name more each time.  A
\* name with a "/", which it skips, is no name here.
Sections == {p \in DOMAIN tree : p \in Seq(STRING) /\ p # <<>> /\ IsDict(tree, p)}

-----------------------------------------------------------------------------
(* build                                                                   *)

\* The first key that a processor looks for.
FirstKey(p) ==
  LET has(k) == Has(tree, Append(p, k))
  IN IF has("obj") THEN "obj" ELSE IF has("cls") THEN "cls"
     ELSE IF has("func") THEN "func" ELSE "none"

\* The first processor that matches.  The one for obj looks for the object in
\* the context, finds the section itself, and leaves it at that.
Processor(r, p) ==
  IF p = Log THEN "logging"
  ELSE IF ~Match(r, Groups(p)) THEN "groups"
  ELSE FirstKey(p)

Kind(r, p) == IF Processor(r, p) = "cls" THEN "entity"
              ELSE IF MakesEntity(tree[Append(p, "func")]) THEN "made"
              ELSE "value"

Placed(r, seen) ==
  LET placed == {p \in seen : Processor(r, p) \in {"cls", "func"}}
  IN [p \in placed |-> Kind(r, p)]

\* RootContextProcessor.processing goes down where no processor matches.
Build(r) ==
  Placed(r, {p \in Sections : \A q \in Above(p) : Processor(r, q) = "none"})
=============================================================================
