--------------------------- MODULE DiffQuotDebug ----------------------------
(***************************************************************************)
(* Difference quotient debugging, derivgrind/dot/dg_dot_diffquotdebug.c:   *)
(* with --diffquotdebug=<directory> the forward mode writes the value and  *)
(* the dot value of the result of every F64 or F32 operation to the files  *)
(* dg-dqd-val and dg-dqd-dot, through two buffers of BUFSIZE entries.      *)
(***************************************************************************)
EXTENDS Integers, Sequences

CONSTANTS
  BUFSIZE,      \* entries of a buffer, at least one (1000000 in the code)
  Threads,      \* thread ids of the program
  Values,       \* values and dot values of results, 0 among them
  MaxDisable,   \* bound on the nesting of DG_DISABLE brackets
  MaxResults    \* bound on the number of recorded results

VARIABLES
  dg_dot_nextindex,   \* number of recorded results
  dg_dot_buffer_val,  \* values not yet written, by slot
  dg_dot_buffer_dot,  \* dot values not yet written, by slot
  dg_dqd_val,         \* contents of the file dg-dqd-val
  dg_dqd_dot,         \* contents of the file dg-dqd-dot
  dg_disable,         \* per thread, the counter of DG_DISABLE
  open,               \* TRUE until the program ends
  log                 \* history: the results that should be in the files

vars == <<dg_dot_nextindex, dg_dot_buffer_val, dg_dot_buffer_dot, dg_dqd_val,
          dg_dqd_dot, dg_disable, open, log>>

Slot == 0 .. BUFSIZE - 1

\* The first n entries of a buffer, as they are written to a file.
Prefix(buf, n) == [i \in 1 .. n |-> buf[i - 1]]

dg_dot_diffquotdebug_initialize ==
  /\ dg_dot_nextindex = 0
  /\ dg_dot_buffer_val = [s \in Slot |-> 0]
  /\ dg_dot_buffer_dot = [s \in Slot |-> 0]
  /\ dg_dqd_val = <<>>
  /\ dg_dqd_dot = <<>>
  /\ open = TRUE

(***************************************************************************)
(* What a write to entry i of a buffer makes of that buffer and of the     *)
(* other one.  Beyond the end, it hits memory that neither buffer owns or, *)
(* where the allocator has placed the buffers close together, the other.   *)
(***************************************************************************)
Writes(buf, other, i, x) ==
  IF i \in Slot THEN {<<[buf EXCEPT ![i] = x], other>>}
  ELSE {<<buf, other>>} \cup {<<buf, [other EXCEPT ![s] = x]>> : s \in Slot}

dg_add_diffquotdebug_helper(t, value, dotvalue) ==
  /\ open
  /\ dg_disable[t] = 0
  /\ dg_dot_nextindex < MaxResults
  /\ \E w \in Writes(dg_dot_buffer_val, dg_dot_buffer_dot, dg_dot_nextindex, value) :
     \E z \in Writes(w[2], w[1], dg_dot_nextindex, dotvalue) :
       LET full == (dg_dot_nextindex + 1) % BUFSIZE = 0 IN
       /\ dg_dot_buffer_val' = z[2]
       /\ dg_dot_buffer_dot' = z[1]
       /\ dg_dqd_val' = IF full THEN dg_dqd_val \o Prefix(z[2], BUFSIZE) ELSE dg_dqd_val
       /\ dg_dqd_dot' = IF full THEN dg_dqd_dot \o Prefix(z[1], BUFSIZE) ELSE dg_dqd_dot
  /\ dg_dot_nextindex' = dg_dot_nextindex + 1
  /\ log' = Append(log, <<value, dotvalue>>)
  /\ UNCHANGED <<dg_disable, open>>

DISABLE(t, plus, minus) ==
  /\ open
  /\ dg_disable[t] + plus - minus \in -MaxDisable .. MaxDisable
  /\ dg_disable' = [dg_disable EXCEPT ![t] = @ + plus - minus]
  /\ UNCHANGED <<dg_dot_nextindex, dg_dot_buffer_val, dg_dot_buffer_dot,
                 dg_dqd_val, dg_dqd_dot, open, log>>

dg_dot_diffquotdebug_finalize ==
  LET pos == dg_dot_nextindex % BUFSIZE IN
  /\ open
  /\ open' = FALSE
  /\ dg_dqd_val' = dg_dqd_val \o Prefix(dg_dot_buffer_val, pos)
  /\ dg_dqd_dot' = dg_dqd_dot \o Prefix(dg_dot_buffer_dot, pos)
  /\ UNCHANGED <<dg_dot_nextindex, dg_dot_buffer_val, dg_dot_buffer_dot,
                 dg_disable, log>>

Init ==
  /\ dg_dot_diffquotdebug_initialize
  /\ dg_disable = [t \in Threads |-> 0]
  /\ log = <<>>

Next ==
  \/ \E t \in Threads, value, dotvalue \in Values :
       dg_add_diffquotdebug_helper(t, value, dotvalue)
  \/ \E t \in Threads : DISABLE(t, 1, 0) \/ DISABLE(t, 0, 1)
  \/ dg_dot_diffquotdebug_finalize

Spec == Init /\ [][Next]_vars

-----------------------------------------------------------------------------
(***************************************************************************)
(* "Write intermediate values and dot values for difference quotient       *)
(* debugging into a file" (dg_main.c): in the end the k-th entries of the  *)
(* two files are value and dot value of the k-th recorded result.          *)
(***************************************************************************)
FilesHoldResults ==
  ~open =>
    /\ dg_dqd_val = [k \in 1 .. Len(log) |-> log[k][1]]
    /\ dg_dqd_dot = [k \in 1 .. Len(log) |-> log[k][2]]
=============================================================================
