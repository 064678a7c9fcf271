------------------------------- MODULE Config -------------------------------
(***************************************************************************)
(* aioworkers.core.config: how the settings of an application come about.   *)
(* MergeDict merges documents into one tree, Config.load takes files in its *)
(* own order, settings bound to environment variables are applied anew      *)
(* after every document, and what concerns logging is merged by rules of    *)
(* its own.                                                                 *)
(*                                                                         *)
(* A tree is a function from paths; a mapping is a path with the value      *)
(* Dict.  A document is the sequence of its keys in depth-first order, a    *)
(* nested mapping being an entry of its own before those of its contents.   *)
(* A name below "logging" may have dots, and no mapping there is empty.     *)
(* The parsing of documents is left out.                                    *)
(***************************************************************************)
EXTENDS Integers, Sequences, SequencesExt, FiniteSetsExt

CONSTANTS
  SearchDirs,   \* search_dirs, in order
  Disk,         \* the document in each file, by <<directory, name>>
  Environ,      \* os.environ: the value of each variable that is set
  None          \* the directory in a relative name; no section env

Dict == "{}"
Log == <<"logging">>

VARIABLES
  tree,      \* the MergeDict
  envs,      \* _env: paths and the variables bound to them, as first bound
  loaded     \* the documents given to _update, in order

configVars == <<tree, envs, loaded>>

\* at is the whole path, dots the number of names in the key itself, and bang
\* tells whether the key ends with "!".
Entry(at, dots, bang, val) ==
  [at |-> at, dots |-> dots, bang |-> bang, val |-> val]
NoDoc == [entries |-> <<>>, env |-> <<>>]

ASSUME ConfigAssumption ==
  /\ SearchDirs \in Seq(STRING)
  /\ \A f \in DOMAIN Disk :
       /\ \A i \in DOMAIN Disk[f].entries :
            LET e == Disk[f].entries[i]
            IN e.at \in Seq(STRING) /\ e.dots \in 1..Len(e.at)
       /\ \A i \in DOMAIN Disk[f].env : Disk[f].env[i].at \in Seq(STRING)

ConfigInit == tree = [p \in {Log} |-> Dict] /\ envs = <<>> /\ loaded = <<>>

-----------------------------------------------------------------------------
(* MergeDict and the tree of logging                                       *)

Has(t, p) == p \in DOMAIN t
IsDict(t, p) == Has(t, p) /\ t[p] = Dict

\* The proper prefixes of a path, which MergeDict turns into mappings.
Above(p) == {SubSeq(p, 1, n) : n \in 1..Len(p) - 1}

AboutLog(e) == IsPrefix(Log, e.at)

\* A mapping is merged into one that is there.  A plain key with "!" stores it
\* instead; a dotted one copies it, and the __setitem__ that is to store the copy
\* merges it.
Merges(t, e) ==
  e.val = Dict /\ IsDict(t, e.at) /\ (e.bang => e.dots > 1 \/ AboutLog(e))

\* _update_logging: a value does not give way to a mapping, neither above nor
\* at the end of the path, and a dotted key does not make "loggers".
Raised == <<>>
LogFails(t, e) ==
  \/ \E p \in Above(e.at) \cap DOMAIN t : t[p] # Dict
  \/ e.val = Dict /\ e.at \in DOMAIN t /\ t[e.at] # Dict
  \/ /\ e.dots > 1 /\ Len(e.at) > 2 /\ e.at[2] = "loggers"
     /\ ~Has(t, <<"logging", "loggers">>)

\* __setitem__
Assign(t, e) ==
  LET gone == IF Merges(t, e) THEN {} ELSE {p \in DOMAIN t : IsPrefix(e.at, p)}
      kept == DOMAIN t \ gone
  IN [p \in kept \cup Above(e.at) \cup {e.at} |->
        IF p = e.at THEN e.val ELSE IF p \in Above(e.at) THEN Dict ELSE t[p]]

\* merge, which does not know of "!".
MergeLog(t, e) == IF LogFails(t, e) THEN Raised ELSE Assign(t, e)

\* _update_logging takes the mapping "logging" before the dotted keys.
WholeLogFirst(entries) ==
  LET key(i) == entries[Max({j \in 1..i : entries[j].dots = Len(entries[j].at)})].at
      whole(i) == key(i) = Log
      rest(i) == key(i) # Log
      order == SelectSeq([i \in DOMAIN entries |-> i], whole) \o
               SelectSeq([i \in DOMAIN entries |-> i], rest)
  IN [i \in DOMAIN entries |-> entries[order[i]]]

\* __call__
Merge(t, entries) ==
  LET put(u, e) == CASE u = Raised  -> Raised
                     [] AboutLog(e) -> MergeLog(u, e)
                     [] OTHER       -> Assign(u, e)
  IN FoldLeft(put, t, WholeLogFirst(entries))

-----------------------------------------------------------------------------
(* Config                                                                  *)

\* The bindings of the document d are put into the dictionary _env.
Bind(bound, b) ==
  IF \E i \in DOMAIN bound : bound[i].at = b.at
    THEN [i \in DOMAIN bound |-> IF bound[i].at = b.at THEN b ELSE bound[i]]
    ELSE Append(bound, b)

\* _from_env: what the environment has to say, under dotted keys.
FromEnv(bound) ==
  LET isSet(b) == b.var \in DOMAIN Environ
      found == SelectSeq(bound, isSet)
  IN [i \in DOMAIN found |->
        Entry(found[i].at, Len(found[i].at), FALSE, Environ[found[i].var])]

\* The state of tree and envs.
Settings(t, bound) == [tree |-> t, envs |-> bound]

\* Mutant of UpdateWith: only the document's own bindings are applied.
UpdateWithOwn(c, d) ==
  LET bound == FoldLeft(Bind, c.envs, d.env)
  IN Settings(Merge(Merge(c.tree, d.entries), FromEnv(d.env)), bound)

\* _update: first the document, then the environment.
UpdateWith(c, d) ==
  LET bound == FoldLeft(Bind, c.envs, d.env)
  IN Settings(Merge(Merge(c.tree, d.entries), FromEnv(bound)), bound)

\* load takes the files with an absolute name as they come, and after them,
\* directory by directory, those with a relative one which are there.  An open
\* file or an HTTP response, which -c gives, is taken as it comes as well: such
\* a file has an absolute name here, whatever it was called on the command line.
LoadOrder(fns) ==
  LET absolute == SelectSeq(fns, LAMBDA f : f[1] # None)
      relative == SelectSeq(fns, LAMBDA f : f[1] = None)
      in(d) == [i \in DOMAIN relative |-> <<d, relative[i][2]>>]
      there(f) == f \in DOMAIN Disk
  IN absolute \o FlattenSeq([i \in DOMAIN SearchDirs |->
                               SelectSeq(in(SearchDirs[i]), there)])

\* A call of load, or of update, with these documents.
After(docs) == FoldLeft(UpdateWith, Settings(tree, envs), docs)
Apply(docs) ==
  \E c \in {After(docs)} :
    /\ c.tree # Raised
    /\ tree' = c.tree /\ envs' = c.envs
    /\ loaded' = loaded \o docs

DocsOf(fns) == LET fs == LoadOrder(fns) IN [i \in DOMAIN fs |-> Disk[fs[i]]]
\* load_path of an absolute name that is not there raises.
AllThere(fns) == \A i \in DOMAIN fns : fns[i][1] # None => fns[i] \in DOMAIN Disk

\* What a mapping holds.
Below(p) == {q \in DOMAIN tree : Len(q) = Len(p) + 1 /\ IsPrefix(p, q)}

-----------------------------------------------------------------------------
(* Properties                                                              *)

\* The paths bound by a list of bindings, in the order of their first mention,
\* each with the variable mentioned last.
Bound(bs) ==
  LET isFirst(i) == \A j \in 1..i - 1 : bs[j].at # bs[i].at
      firsts == SelectSeq([i \in DOMAIN bs |-> i], isFirst)
      last(at) == Max({j \in DOMAIN bs : bs[j].at = at})
  IN [k \in DOMAIN firsts |-> bs[last(bs[firsts[k]].at)]]

\* The documents as they came, each with what the environment says after it
\* about all the paths bound so far.  The logging tree is always there.
Stream(docs) ==
  LET boundBy(n) == Bound(FlattenSeq([i \in 1..n |-> docs[i].env]))
  IN <<Entry(Log, 1, FALSE, Dict)>> \o
     FlattenSeq([n \in DOMAIN docs |->
                   WholeLogFirst(docs[n].entries) \o FromEnv(boundBy(n))])

\* What is meant to give a path anew, with nothing left of what it was: a value,
\* or a mapping under a plain key with "!", which logging does not know.
GivenAnew(e) == e.val # Dict \/ (e.bang /\ e.dots = 1 /\ ~IsPrefix(Log, e.at))

\* The last word of a stream about the path p: an entry at or below p, or one
\* above p that swept it away.
Touches(e, p) == IsPrefix(p, e.at) \/ (IsPrefix(e.at, p) /\ GivenAnew(e))
LastWord(s, p) ==
  LET about == {i \in DOMAIN s : Touches(s[i], p)}
  IN IF about = {} THEN None
     ELSE LET e == s[Max(about)]
          IN IF e.at = p THEN e.val
             ELSE IF IsPrefix(p, e.at) THEN Dict ELSE None

SaidLast(s, t) ==
  \A p \in UNION {Above(s[i].at) \cup {s[i].at} : i \in DOMAIN s} \cup DOMAIN t :
    LastWord(s, p) = IF p \in DOMAIN t THEN t[p] ELSE None

\* Whatever is merged in whatever order, each setting is then what was said of
\* it last, the environment speaking after every document for all that was ever
\* bound: no leftover of a replaced mapping survives, and no document overrides
\* a variable (MergeDict.__setitem__, Config._update).
LookupIsLast ==
  [][loaded' # loaded =>
       \A docs \in {loaded'}, t \in {tree'} :
         \A s \in {Stream(docs)} : SaidLast(s, t)]_configVars
=============================================================================
