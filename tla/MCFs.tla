-------------------------------- MODULE MCFs --------------------------------
(* An instance of Fs for TLC: a boot file "a", a directory "t", a device,  *)
(* and a few calls of each kind that change anything.  "long" is a name of *)
(* more than VFS_MAX_NAME bytes, which begins with "b".                    *)
EXTENDS Fs, TLC

CONSTANTS MAX_CALLS, MAX_PATH, MAX_FD, MAX_ID, MAX_PROC     \* bound: calls of each kind
VARIABLE left

MCParts == [n \in {"a", "b", "t", "dev", "null", "..", "long"} |->
               IF n = "long" THEN <<"b", "rest">> ELSE <<n>>]
MCBootDirs == <<"t">>
MCBootFiles == <<"a">>
MCDevices == [d \in {-2} |-> "null"]
MCModes == {Perms({"r", "w"}, {"r"}, {"w"})}

Abs(names) == [abs |-> TRUE, names |-> names]
Rel(names) == [abs |-> FALSE, names |-> names]
MCPaths == {Abs(<<"a">>), Abs(<<"t">>), Rel(<<"b">>), Rel(<<"..", "long">>),
            Abs(<<"dev", "null">>)}
MCOwnPaths == {Abs(<<"a">>)}

Flags(mode, creat, excl, trunc, append) ==
    [mode |-> mode, creat |-> creat, excl |-> excl, trunc |-> trunc, append |-> append]
MCOpenFlags == {Flags("O_RDONLY", TRUE, TRUE, FALSE, FALSE),
                Flags("O_RDWR", TRUE, FALSE, FALSE, TRUE),
                Flags("O_WRONLY", TRUE, FALSE, TRUE, FALSE)}

(* One call of a kind, if it changes anything and the bound allows it. *)
Spend(kind) ==
    /\ left[kind] > 0 /\ left.all > 0
    /\ left' = [left EXCEPT ![kind] = @ - 1, !.all = @ - 1]

MCInit ==
    /\ Init
    /\ left = [all |-> MAX_CALLS, path |-> MAX_PATH, fd |-> MAX_FD, id |-> MAX_ID, proc |-> MAX_PROC]
MCNext ==
    /\ \E p \in Procs :
          \/ Spend("fd") /\ fd_calls(p)
          \/ Spend("path") /\ path_calls(p)
          \/ Spend("id") /\ identity_calls(p)
          \/ Spend("proc") /\ \E q \in Procs : process_clone_into(p, q)
          \/ Spend("proc") /\ process_terminate(p)
    /\ vars' # vars
MCSpec == MCInit /\ [][MCNext]_<<vars, left>>

Symmetry == Permutations(Procs)
=============================================================================
