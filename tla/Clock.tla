------------------------------- MODULE Clock --------------------------------
(***************************************************************************)
(* The monotonic clock helpers of clock.h: cf_getms, cf_getus and cf_getns *)
(* each read CLOCK_MONOTONIC into a struct timespec and convert it to one  *)
(* uint64_t count.  act stamps requests with cf_getns, paces with          *)
(* cf_getus and subtracts stamps of different threads (safe_delta_ns), so  *)
(* every conversion must keep the order of the timespecs it converts.      *)
(* The kernel clock is `ts`; `last[f]` is the value the latest call of f   *)
(* returned, in any thread.                                                *)
(***************************************************************************)
EXTENDS Integers

CONSTANTS
  Secs,    \* tv_sec values the clock passes through
  Nsecs    \* tv_nsec values, a subset of 0 .. 999999999

ASSUME Secs \subseteq Nat /\ Nsecs \subseteq 0 .. 999999999

Timespecs == [sec : Secs, nsec : Nsecs]

Fns == {"ms", "us", "ns"}
NotRead == -1

VARIABLES
  ts,      \* the CLOCK_MONOTONIC timespec clock_gettime() would fill in
  last     \* last[f]: what the latest call of cf_get<f> returned

vars == <<ts, last>>

(* Mutant of cf_getns: tv_sec scaled by the microsecond factor.            *)
cf_getns_usfactor(t) == t.nsec + t.sec * 1000000

cf_getms(t) == t.nsec \div 1000000 + t.sec * 1000
cf_getus(t) == t.nsec \div 1000 + t.sec * 1000000
cf_getns(t) == t.nsec + t.sec * 1000000000

Convert(f, t) == CASE f = "ms" -> cf_getms(t)
                   [] f = "us" -> cf_getus(t)
                   [] f = "ns" -> cf_getns(t)

(* CLOCK_MONOTONIC never goes back: u is not before t.                     *)
NotBefore(u, t) == u.sec > t.sec \/ (u.sec = t.sec /\ u.nsec >= t.nsec)

-----------------------------------------------------------------------------
Init ==
  /\ ts \in Timespecs
  /\ last = [f \in Fns |-> NotRead]

(* Time passes, by any amount.                                             *)
Advance ==
  /\ \E u \in Timespecs : NotBefore(u, ts) /\ u # ts /\ ts' = u
  /\ UNCHANGED last

(* A call of cf_get<f>: clock_gettime, then the conversion.                *)
Get(f) ==
  /\ last' = [last EXCEPT ![f] = Convert(f, ts)]
  /\ UNCHANGED ts

Next == Advance \/ \E f \in Fns : Get(f)

Spec == Init /\ [][Next]_vars

-----------------------------------------------------------------------------
TypeOK ==
  /\ ts \in Timespecs
  /\ last \in [Fns -> Nat \cup {NotRead}]

(* Nanoseconds per unit of each helper.                                   *)
Scale(f) == CASE f = "ms" -> 1000000 [] f = "us" -> 1000 [] f = "ns" -> 1

(* A call never returns less than any earlier call, of the same helper or *)
(* of another one brought to its unit, in whatever thread they ran.  act  *)
(* relies on it when read_and_report subtracts a cf_getns stamp from a    *)
(* later one (safe_delta_ns's clamp never fires), when the paced loops    *)
(* subtract g_run_start_us from cf_getus(), and when main() compares      *)
(* cf_getus() with run_stop_us.                                           *)
ReadingsOrdered ==
  [][\A f, g \in Fns :
       (last'[f] # last[f] /\ last[g] # NotRead) =>
         last'[f] >= (last[g] * Scale(g)) \div Scale(f)]_vars
=============================================================================
