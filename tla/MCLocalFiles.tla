---------------------------- MODULE MCLocalFiles ----------------------------
(* LocalFiles for TLC: each setting lets a few things happen together. *)
EXTENDS LocalFiles

mcTab == 1..2
mcGrant == 1..3
mcStoreFiles == {NoFile, Damaged} \cup {StoreOf(v) : v \in 1..(CurrentStoreVersion + 1)}

mcSetting(store, tabs, meets) == [store |-> store, tabs |-> tabs, meets |-> meets]
mcOn(tabs, meets) == mcSetting(StoreOf(CurrentStoreVersion), tabs, meets)

mcSettings ==
  (* the store alone, whatever it finds, fails at and dies of *)
  {mcSetting(store, 0, {"fail", "die"}) : store \in mcStoreFiles}
  \cup
  { (* one tab on a file that others write too *)
    mcOn(1, {"open", "save", "type", "write"}),
    mcOn(1, {"restore", "open", "save", "write", "die"}),
    mcOn(1, {"open", "save", "save as", "type", "write", "fail"}),
    (* a tab, its recovery, and a process that dies *)
    mcOn(1, {"restore", "open", "save", "type", "die"}),
    mcOn(1, {"restore", "new", "save as", "die", "fail"}),
    (* two tabs on one file *)
    mcOn(2, {"route", "open", "save", "type"}),
    (* files that arrive at any time *)
    mcOn(2, {"restore", "route", "type", "die"}),
    mcOn(2, {"route", "write"}),
    mcOn(2, {"restore", "route", "open", "close", "new", "clear", "die"}) }
=============================================================================
