------------------------------ MODULE MCShell -------------------------------
(***************************************************************************)
(* An instance of Shell for TLC: somebody types one of the Scripts, key by *)
(* key, while the shell and its children run.                              *)
(***************************************************************************)
EXTENDS Shell

CONSTANTS
    Scripts,          \* bound: what is typed, as sequences of keys
    LongScripts,      \* bound: the same, with one deed less
    MAX_DEEDS         \* bound: what the programs do besides ending

VARIABLES todo, deeds

mcvars == <<vars, todo, deeds>>

MCInit ==
    /\ Init
    /\ \/ todo \in Scripts /\ deeds = MAX_DEEDS
       \/ todo \in LongScripts /\ deeds = MAX_DEEDS - 1

type_key ==
    /\ todo # <<>>
    /\ keyboard(Head(todo))
    /\ todo' = Tail(todo)
    /\ UNCHANGED deeds

run_shell == shell /\ UNCHANGED <<todo, deeds>>

run_child ==
    \E p \in Pids :
        \/ /\ stage_ends(p) \/ stage_execs(p) \/ program_exits(p) \/ read_continues(p)
           /\ UNCHANGED <<todo, deeds>>
        \/ /\ deeds > 0
           /\ program_sets_raw(p) \/ program_sets_echo(p) \/ program_reads(p) \/ program_kills(p)
              \/ program_sets_foreground(p) \/ program_forks(p) \/ program_waits(p)
           /\ deeds' = deeds - 1
           /\ UNCHANGED todo

MCNext == type_key \/ run_shell \/ run_child

MCSpec == MCInit /\ [][MCNext]_mcvars

Interrupt == <<"ctrl", "c", "ctrl up">>
Suspend == <<"ctrl", "z", "ctrl up">>
One == <<"x", "NL">>
Job == <<"x", "&", "NL">>
Pair == <<"x", "|", "x", "NL">>
PairJob == <<"x", "|", "x", "&", "NL">>

(* Job control, four commands or keys long, and two. *)
FourCommands == { a \o b \o c :
                    a \in {Job, Pair},
                    b \in {Suspend, PairJob, <<"kill", "-TSTP", "%1", "NL">>},
                    c \in {<<"fg", "NL">> \o Interrupt, <<"bg", "NL", "fg", "%1", "NL">>} }

MCScripts == { a \o b : a \in {One, Job, Pair},
                       b \in {Suspend, Interrupt, <<"fg", "NL">>} }

(* Lines that fail, that crash the shell, that are too long for the edit   *)
(* line, and pipelines that need more descriptors than there are.          *)
Oddities == {
    <<"x", ">", "x", "BS", "|", "x", "NL">> \o <<"|", "NL", "NL", "&", "NL">>,
    <<"x", ">", "x", "|", "NL", "jobs", "NL">> \o <<"&", "x", "NL">>,
    <<"|", "&", "x", "NL", "BS", "ctrl", "x", "ctrl up">> \o <<"kill", "NL", "kill", "&", "x", "NL">>,
    <<"x", "|", "x", "|", "x", "NL">> \o Pair \o Job,
    <<"kill", "-CONT", "NL", "kill", "-CONT", "&", "x", "NL">>,
    <<"x", "x", "x", "x", "x", "x", "x", "NL", "bg", "x", "NL", "exit", "NL">>,
    Job \o <<"kill", "%1", "NL">> \o Job \o Job,
    Job \o Job \o One \o Suspend,
    Pair \o Suspend \o PairJob \o <<"bg", "%1", "NL">> \o <<"fg", "NL">>,
    Job \o <<"kill", "-TSTP", "1", "NL">> \o <<"fg", "1", "NL">> }

MCLongScripts == FourCommands \cup Oddities
MCJobNames == <<"%1", "%2">>
MCNumbers == <<"1", "2", "3">>
=============================================================================
