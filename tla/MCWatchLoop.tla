----------------------------- MODULE MCWatchLoop -----------------------------
(***************************************************************************)
(* Small instances of WatchLoop: one watcher with two rounds, two watchers  *)
(* beside each other, two whose store calls overlap, one watcher beside the *)
(* queue CLI, and one whose saves may fail.                                *)
(***************************************************************************)
EXTENDS WatchLoop, TLC

CONSTANTS one, two, cli

TwoWatchers == {one, two}
OneCli == {cli}

Alone == [up |-> {one}, rounds |-> {1, 2}, overlap |-> FALSE, saves |-> FALSE,
          time |-> 0, faults |-> 2, calls |-> 0]
Pair == [up |-> {one, two}, rounds |-> {1, 2}, overlap |-> FALSE, saves |-> FALSE,
         time |-> 0, faults |-> 0, calls |-> 0]
Both == [up |-> {one, two}, rounds |-> {2}, overlap |-> TRUE, saves |-> FALSE,
         time |-> 0, faults |-> 1, calls |-> 0]
WithCli == [up |-> {one}, rounds |-> {2}, overlap |-> FALSE, saves |-> FALSE,
            time |-> 1, faults |-> 1, calls |-> 2]
BadDisk == [Alone EXCEPT !.saves = TRUE]
SharedSetups == {Alone, Pair, Both, WithCli, BadDisk}
BadDiskSetup == {BadDisk}
=============================================================================
