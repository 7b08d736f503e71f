--------------------------------- MODULE CeIo ---------------------------------
(***************************************************************************)
(* ce_io.c as its callers see it: what each function does to the ce_io_t   *)
(* and what it may return, as the set of its possible outcomes             *)
(* [io, ret].                                                              *)
(*                                                                         *)
(* io_dict maps the ADDRESS of the parameter fd of ce_io_add, as a string, *)
(* to the connection.  That parameter is dead when ce_io_add returns, so   *)
(* every later look-up compares with whatever the stack then holds: it     *)
(* misses, or it hits and the callers take entry->key, a stack address,    *)
(* for the ce_io_fd_t.  Using that is undefined.  (The thread that added   *)
(* is assumed to be alive: its stack can at least be read.)                *)
(***************************************************************************)
EXTENDS Integers

(* The ce_io_t: entries counts the connections in io_dict, lost those that  *)
(* nothing refers to any more.                                             *)
NoIo == [mem |-> "none", stop |-> FALSE, entries |-> 0, lost |-> 0]

ce_io_new == [NoIo EXCEPT !.mem = "live"]

Refused(io) == {[io |-> io, ret |-> "false"]}

(* dictFind(io_dict, &fd): a miss, or a hit that yields a stack address.    *)
dictFind(io) == IF io.entries = 0 THEN {"miss"} ELSE {"miss", "hit"}

(* A look-up only compares, so a hit here is refused without harm.          *)
ce_io_add(io) ==
  IF io.stop
    THEN Refused(io)
    ELSE {[io |-> [io EXCEPT !.entries = @ + 1], ret |-> "true"]}
         \cup (IF "hit" \in dictFind(io) THEN Refused(io) ELSE {})

(* ce_io_enqueue and ce_io_push after their checks: a miss is refused; a    *)
(* hit writes to the ring found at a stack address.                        *)
ThroughKey(io) ==
  IF io.stop
    THEN Refused(io)
    ELSE {[io |-> io, ret |-> IF found = "miss" THEN "false" ELSE "undefined"] :
             found \in dictFind(io)}

ce_io_enqueue(io) == ThroughKey(io)
ce_io_push(io, size) == IF size <= 0 THEN Refused(io) ELSE ThroughKey(io)

(* The entry is also removed and its key, a stack address, freed.           *)
ce_io_del(io) == ThroughKey(io)

(* stop is set first, so ce_io_del refuses each connection of the table:    *)
(* none is freed, nor is the table.  No task ever reached the pool, whose   *)
(* threads are joined.                                                     *)
DeletedBy(io) == IF ce_io_del(io) = Refused(io) THEN 0 ELSE io.entries

ce_io_destory(io) ==
  LET stopping == [io EXCEPT !.stop = TRUE]
  IN  [stopping EXCEPT !.mem = "freed", !.lost = @ + io.entries - DeletedBy(stopping),
                       !.entries = 0]
=============================================================================
