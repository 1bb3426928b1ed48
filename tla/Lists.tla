--------------------------------- MODULE Lists ---------------------------------
(***************************************************************************)
(* Doubly linked lists as the sequence of their entries: what the modules    *)
(* whose lists never lose a link share.  (Where the links themselves matter,  *)
(* in KeApcState, PsScheduler and PsTermination, they are modelled one by      *)
(* one.)                                                                      *)
(***************************************************************************)
EXTENDS Naturals, Sequences

Members(list) == {list[i] : i \in DOMAIN list}

NoDuplicates(list) == \A i, j \in DOMAIN list : list[i] = list[j] => i = j

\* RemoveEntryList of the entry t, if it is linked.
Unlink(list, t) ==
  IF t \in Members(list)
    THEN LET at == CHOOSE i \in DOMAIN list : list[i] = t
         IN  [i \in 1 .. Len(list) - 1 |-> IF i < at THEN list[i] ELSE list[i + 1]]
    ELSE list

\* An entry is linked behind the first n.
InsertAfter(list, n, t) == SubSeq(list, 1, n) \o <<t>> \o SubSeq(list, n + 1, Len(list))
===============================================================================
