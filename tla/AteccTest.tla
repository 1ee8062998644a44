------------------------------ MODULE AteccTest ------------------------------
(***************************************************************************)
(* The crypto test atecc-test: a sequence of calls of CryptoAuthLib. The     *)
(* address is tried in its 8 bit form, then in its 7 bit form; a failed      *)
(* wakeup ends the test, a failed read is noted and passed over.             *)
(***************************************************************************)
CONSTANTS Addresses   \* 8 bit and 7 bit, "0xC0" and "0x60"

VARIABLES works,      \* the forms of the address the library of this build takes
          locked,     \* zone -> whether the zone of the device is locked
          at,         \* the next call, or "exit"
          open,       \* atcab_init has succeeded, atcab_release has not been called
          is_locked,  \* the variable of main
          said        \* zone -> what the test has printed of it, "none" before
vars == <<works, locked, at, open, is_locked, said>>

Zones == {"config", "data"}
Answers == {"yes", "no"}
Calls == {"init", "init again", "wakeup", "serial", "config", "data", "release"}

TypeOK ==
  /\ works \subseteq Addresses /\ locked \in [Zones -> Answers]
  /\ at \in Calls \cup {"exit"} /\ open \in BOOLEAN /\ is_locked \in Answers
  /\ said \in [Zones -> Answers \cup {"none"}]

Init ==
  /\ works \in SUBSET Addresses /\ locked \in [Zones -> Answers]
  /\ at = "init" /\ open = FALSE /\ is_locked = "no"
  /\ said = [z \in Zones |-> "none"]
-----------------------------------------------------------------------------
\* atcab_init with one form of the address; it may fail whatever the form.
TryInit(here, address, next) ==
  /\ at = here
  /\ \/ address \in works /\ open' = TRUE /\ at' = "wakeup"
     \/ open' = FALSE /\ at' = next
  /\ UNCHANGED <<works, locked, is_locked, said>>

FirstInit == TryInit("init", "0xC0", "init again")
SecondInit == TryInit("init again", "0x60", "exit")

\* A device that does not wake ends the test, the library released.
Wakeup ==
  /\ at = "wakeup"
  /\ \/ at' = "serial" /\ UNCHANGED open
     \/ at' = "exit" /\ open' = FALSE
  /\ UNCHANGED <<works, locked, is_locked, said>>

\* Printed if it is read, complained of if not.
ReadSerial ==
  /\ at = "serial" /\ at' = "config"
  /\ UNCHANGED <<works, locked, open, is_locked, said>>

\* atcab_is_locked: the answer is printed if the call succeeds.
IsLocked(zone, next) ==
  /\ at = zone /\ at' = next
  /\ \/ is_locked' = locked[zone] /\ said' = [said EXCEPT ![zone] = is_locked']
     \/ UNCHANGED <<is_locked, said>>
  /\ UNCHANGED <<works, locked, open>>

Release ==
  /\ at = "release" /\ at' = "exit"
  /\ open' = FALSE
  /\ UNCHANGED <<works, locked, is_locked, said>>

Next ==
  \/ FirstInit \/ SecondInit \/ Wakeup \/ ReadSerial \/ Release
  \/ IsLocked("config", "data") \/ IsLocked("data", "release")

Spec == Init /\ [][Next]_vars
-----------------------------------------------------------------------------
(* Properties                                                               *)

\* However the test ends the library is released, and what it has said of a zone is
\* that zone's lock, although both answers pass through one variable (main 41-75).
NothingHeld ==
  /\ at = "exit" => ~open
  /\ \A z \in Zones : said[z] \in {"none", locked[z]}
=============================================================================
