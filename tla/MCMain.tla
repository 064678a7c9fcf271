------------------------------- MODULE MCMain -------------------------------
(***************************************************************************)
(* A small instance of Main: an entity a of group g, an entity e, with a    *)
(* section k, in the section s of group h, what a function makes, and two   *)
(* kinds of processes.                                                      *)
(***************************************************************************)
EXTENDS Main

\* A plain key at the end of the path at, and a key with all of its names.
Plain(at, val) == Entry(at, 1, FALSE, val)
Dotted(at, val) == Entry(at, Len(at), FALSE, val)
Doc(entries, env) == [entries |-> entries, env |-> env]

A == <<"a">>
S == <<"s">>
E == <<"s", "e">>
K == <<"s", "e", "k">>
F == <<"f">>
Root == <<"logging", "root">>
Loggers == <<"logging", "loggers">>
Web == <<"processes", "web">>
Bg == <<"processes", "bg">>

Base == Doc(
  << Plain(A, Dict), Plain(A \o <<"cls">>, "A"), Plain(A \o <<"groups">>, "g"),
     Plain(A \o <<"link">>, ".s.e"),
     Plain(S, Dict), Plain(S \o <<"groups">>, "h"), Plain(E, Dict),
     Plain(E \o <<"cls">>, "E"), Plain(E \o <<"link">>, ".a"),
     Plain(K, Dict), Plain(K \o <<"groups">>, "g"), Plain(K \o <<"link">>, ".a"),
     Dotted(Bg, Dict), Plain(Bg \o <<"groups">>, "h"),
     Plain(Log, Dict), Plain(Root, Dict), Plain(Root \o <<"level">>, "INFO") >>,
  << [at |-> A \o <<"link">>, var |-> "LINK"],
     [at |-> Root \o <<"level">>, var |-> "LEVEL"],
     [at |-> Web \o <<"cpus">>, var |-> "CPUS"] >>)
Own == Doc(
  << Dotted(Web, Dict), Plain(Web \o <<"groups">>, "g"),
     Plain(Web \o <<"count">>, "1"), Plain(Web \o <<"cpus">>, "0") >>, <<>>)

\* a becomes a plain value, or the whole of s is given anew.
Off == Doc(<< Plain(A, "off"), Plain(F, Dict), Plain(F \o <<"func">>, "make"),
              Entry(E, 2, TRUE, Dict), Plain(E \o <<"cls">>, "F"),
              Plain(E \o <<"link">>, ".f") >>, <<>>)
Anew == Doc(<< Entry(S, 1, TRUE, Dict), Dotted(E \o <<"cls">>, "G"),
               Plain(Log, Dict), Plain(Loggers, Dict),
               Plain(Loggers \o <<"a">>, Dict),
               Plain(Loggers \o <<"a", "level">>, "INFO") >>,
            << [at |-> A \o <<"link">>, var |-> "NOLINK"] >>)
Regroup == Doc(<< Dotted(A \o <<"groups">>, "h"), Dotted(E \o <<"groups">>, "g"),
                  Dotted(S \o <<"cls">>, "S"), Dotted(F \o <<"obj">>, "x") >>, <<>>)

\* Dotted keys about logging beside the mapping.
Logs == Doc(<< Dotted(Root \o <<"handlers">>, "h1"),
               Dotted(Loggers \o <<"a.b", "level">>, "DEBUG"),
               Plain(Log, Dict), Plain(Root, Dict),
               Plain(Root \o <<"level">>, "WARNING"),
               Plain(Root \o <<"handlers">>, "h2") >>, <<>>)

MCSearchDirs == <<"d1", "d2">>
MCDisk == [f \in {<<"/", "base">>, <<"/", "off">>, <<"d1", "off">>,
                  <<"d1", "anew">>, <<"d2", "anew">>, <<"d2", "logs">>} |->
             CASE f[2] = "base" -> Base
               [] f[2] = "off"  -> Off
               [] f[2] = "logs" -> Logs
               [] f[2] = "anew" -> IF f[1] = "d1" THEN Anew ELSE Regroup]
MCEnviron == [v \in {"LINK", "CPUS", "LEVEL"} |->
                CASE v = "LINK" -> ".s.e.k" [] v = "CPUS" -> "50" [] v = "LEVEL" -> "ERROR"]
MCPlugins == << [configs |-> << <<"/", "base">> >>, own |-> Own] >>

MCNumber(v) == CASE v = "1" -> 1 [] v = "50" -> 50 [] OTHER -> 0
MCGroupsOf(v) == IF v \in {"g", "h"} THEN {v} ELSE {}
MCMakesEntity(v) == v = "make"

Names == { <<None, "off">>, <<None, "anew">>, <<None, "logs">>, <<"/", "off">>, <<"/", "none">> }
Command(fs, d, m, ps, gs, xs, all) ==
  [files |-> fs, stdin |-> d, multi |-> m, processes |-> ps, groups |-> gs,
   exclude |-> xs, all |-> all]
MCInvocations ==
  UNION { {Command(fs, d, TRUE, ps, {}, {}, FALSE) : ps \in {{}, {"bg"}}} \cup
          {Command(fs, d, FALSE, ps, {}, {}, FALSE) : ps \in {{}, {"bg"}, {"no"}}} \cup
          {Command(fs, d, FALSE, {}, {"g"}, {}, FALSE),
           Command(fs, d, FALSE, {}, {"g", "h"}, {}, FALSE),
           Command(fs, d, FALSE, {}, {}, {"h"}, TRUE)} :
        fs \in BoundedSeq(Names, 2), d \in {NoDoc, Regroup} }
=============================================================================
