----------------------------- MODULE HostsFile -----------------------------
(***************************************************************************)
(* The hosts file of a client's machine (pkg/utils/hosts.go): every list   *)
(* the server sends starts a goroutine that rewrites it (the end of        *)
(* SyncPeers), and the signal handler cleans it before the program exits   *)
(* (cmd/client/main.go).  No lock is taken, and a rewrite is a read of the *)
(* whole file, a truncation and a write.                                   *)
(*                                                                         *)
(* The file is a sequence of lines: the user's, the two marks, and one for *)
(* each peer (two in the file, for the name and for name.local).  Blank    *)
(* lines at the end are left out.                                          *)
(***************************************************************************)
EXTENDS Naturals, Sequences, FiniteSets, SequencesExt

CONSTANTS UserLines, \* the lines that are not the program's, in their order
          PeerLine,  \* the lines of the peers that may be listed
          BlockStart, BlockEnd,
          Task,      \* bound: the rewrites under way at a time
          Cleaner    \* the signal handler's rewrite, a task of its own

VARIABLES file, \* the lines in the file
          up,   \* whether the client runs
          pc,   \* the next step of each rewrite
          out,  \* what it is going to write
          torn  \* history: the client has ended between a truncation and a write

vars == <<file, up, pc, out, torn>>

Writer == Task \cup {Cleaner}

Init ==
    /\ file = UserLines
    /\ up = TRUE
    /\ pc = [w \in Writer |-> "idle"]
    /\ out = [w \in Writer |-> <<>>]
    /\ torn = FALSE

-----------------------------------------------------------------------------
(* The lines outside the program's block, the marks not among them.        *)
Copy(lines) ==
    LET Take(acc, line) ==
          CASE line = BlockStart -> [acc EXCEPT !.inBlock = TRUE]
            [] line = BlockEnd   -> [acc EXCEPT !.inBlock = FALSE]
            [] OTHER -> IF acc.inBlock THEN acc ELSE [acc EXCEPT !.kept = Append(@, line)]
    IN  FoldLeft(Take, [inBlock |-> FALSE, kept |-> <<>>], lines).kept

(* The block for a list of peers, whose lines come in any order. *)
Blocks(peers) ==
    IF peers = {} THEN {<<>>}
    ELSE {<<BlockStart>> \o lines \o <<BlockEnd>> : lines \in SetToSeqs(peers)}

-----------------------------------------------------------------------------
(* UpdateHostsFile reads the file and works out the new one, *)
Rewrite(w, peers) ==
    /\ pc[w] = "idle"
    /\ pc' = [pc EXCEPT ![w] = "open"]
    /\ \E block \in Blocks(peers) : out' = [out EXCEPT ![w] = Copy(file) \o block]
    /\ UNCHANGED <<file, up, torn>>

(* opens it, which truncates it, *)
Truncate(w) ==
    /\ pc[w] = "open"
    /\ file' = <<>>
    /\ pc' = [pc EXCEPT ![w] = "write"]
    /\ UNCHANGED <<up, out, torn>>

(* and writes from the start: what another rewrite wrote past the end of   *)
(* this one stays.                                                         *)
Write(w) ==
    /\ pc[w] = "write"
    /\ file' = out[w] \o SubSeq(file, Len(out[w]) + 1, Len(file))
    /\ pc' = [pc EXCEPT ![w] = IF w = Cleaner THEN "exit" ELSE "idle"]
    /\ out' = [out EXCEPT ![w] = <<>>]
    /\ UNCHANGED <<up, torn>>

-----------------------------------------------------------------------------
(* A list comes in. *)
SyncPeers ==
    /\ up
    /\ \E w \in Task, peers \in SUBSET PeerLine : Rewrite(w, peers)

(* SIGINT or SIGTERM: the file is cleaned. *)
Interrupt == up /\ Rewrite(Cleaner, {})

(* The program ends, and its goroutines wherever they are: after the       *)
(* cleaning, or without one when Run returns an error, since os.Exit runs  *)
(* no deferred call, and when it is killed.                                *)
End ==
    /\ up
    /\ up' = FALSE
    /\ torn' = (torn \/ \E w \in Writer : pc[w] = "write")
    /\ pc' = [w \in Writer |-> "idle"]
    /\ out' = [w \in Writer |-> <<>>]
    /\ UNCHANGED file

Boot ==
    /\ ~up
    /\ up' = TRUE
    /\ UNCHANGED <<file, pc, out, torn>>

Next ==
    \/ SyncPeers \/ Interrupt
    \/ \E w \in Writer : Truncate(w) \/ Write(w)
    \/ End \/ Boot

Spec == Init /\ [][Next]_vars

-----------------------------------------------------------------------------
(* What a comment of the code says, and the code does not do:              *)
(* hosts.go:39, everything but the program's own block is copied.  So the  *)
(* user's lines are in the file whenever nobody is writing it, even if an  *)
(* end in the middle of a write is forgiven.                               *)
UserLinesKept ==
    ~torn /\ (\A w \in Writer : pc[w] # "write") => Range(UserLines) \subseteq Range(file)
=============================================================================
