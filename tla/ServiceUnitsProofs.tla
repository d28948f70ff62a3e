------------------------- MODULE ServiceUnitsProofs -------------------------
(***************************************************************************)
(* Theorems about ServiceUnits, for any units, settings, operators and     *)
(* bound, on both systems, with schedulers that refuse and commands that   *)
(* die: the state is typed, and no unit runs without files unless the      *)
(* scheduler refused to stop it.                                           *)
(***************************************************************************)
EXTENDS ServiceUnits, TLAPS

Steps == {"idle", "main", "trigger", "reload", "enable", "bootout", "bootstrap",
          "stop", "remove", "reload after"}
Jobs == [unit : Units \cup {None}, setting : Text]
Loads == [main : Text, trigger : Text]

Installing == {"main", "trigger", "reload", "enable", "bootout", "bootstrap"}

(* What a command has done by the step it is at: an install has written what is
   asked in the files before the scheduler hears of them, and an uninstall has stopped the
   unit, or has been refused, before it removes them. *)
CommandOK(p) ==
  LET u == job[p].unit
  IN /\ pc[p] = "idle" <=> u = None
     /\ pc[p] \in Installing => job[p].setting # None
     /\ pc[p] = "trigger" => Has2(u) /\ main[u] = job[p].setting
     /\ pc[p] \in {"reload", "enable"} =>
          os = "linux" /\ main[u] = job[p].setting /\ (Has2(u) => trigger[u] = job[p].setting)
     /\ pc[p] \in {"bootout", "bootstrap"} => os = "darwin" /\ main[u] = job[p].setting
     /\ pc[p] = "remove" => active[u] = Unloaded \/ u \in refused
     /\ pc[p] = "reload after" => os = "linux"

OneAUnit ==
  \A p, q \in Operators : job[p].unit = job[q].unit /\ job[p].unit # None => p = q

(* A unit that is not installed is not loaded, or could not be stopped. *)
Accounted == \A u \in Units : ~Present(u) /\ active[u] # Unloaded => u \in refused

CommandInv ==
  /\ pc \in [Operators -> Steps] /\ job \in [Operators -> Jobs]
  /\ \A p \in Operators : CommandOK(p)
  /\ OneAUnit
  /\ Accounted

Inv == TypeOK /\ CommandInv

-----------------------------------------------------------------------------
(* The fields of a job are typed. *)
LEMMA JobFields ==
  ASSUME Inv, NEW p \in Operators
  PROVE  /\ job[p].unit \in Units \cup {None} /\ job[p].setting \in Text
         /\ job[p].unit = None <=> pc[p] = "idle"
         /\ pc[p] # "idle" => job[p].unit \in Units
<1>1. job[p] \in Jobs
  BY DEF Inv, CommandInv
<1>2. job[p].unit \in Units \cup {None} /\ job[p].setting \in Text
  BY <1>1 DEF Jobs
<1>3. job[p].unit = None <=> pc[p] = "idle"
  BY DEF Inv, CommandInv, CommandOK, Installing
<1> QED BY <1>2, <1>3

(* What a scheduler reads from the files of an installed unit. *)
LEMMA WrittenIsLoad ==
  ASSUME TypeOK, NEW u \in Units, main[u] # None, Has2(u) => trigger[u] # None
  PROVE  /\ Written(u) \in Loads
         /\ None \notin {Written(u).main, Written(u).trigger}
         /\ Written(u) # Unloaded
<1>1. main[u] \in Text /\ trigger[u] \in Text
  BY DEF TypeOK
<1> QED BY <1>1 DEF Written, Loads, Unloaded

(* A reload loads no unit and unloads none. *)
LEMMA ReloadedIsLoad ==
  ASSUME TypeOK, NEW u \in Units
  PROVE  /\ Reloaded(u) \in Loads
         /\ Reloaded(u) = Unloaded \/ None \notin {Reloaded(u).main, Reloaded(u).trigger}
         /\ Reloaded(u) = Unloaded <=> active[u] = Unloaded
<1>1. active[u] \in Loads
  BY DEF TypeOK, Loads
<1>2. active[u] = Unloaded \/ None \notin {active[u].main, active[u].trigger}
  BY DEF TypeOK
<1>3. CASE u \in Timers /\ active[u] # Unloaded /\ Present(u) /\ main[u] # None
  <2>1. Has2(u) => trigger[u] # None
    BY <1>3 DEF Present
  <2>2. Reloaded(u) = Written(u)
    BY <1>3 DEF Reloaded
  <2> QED BY <1>3, <2>1, <2>2, WrittenIsLoad
<1>4. CASE ~(u \in Timers /\ active[u] # Unloaded /\ Present(u) /\ main[u] # None)
  <2>1. Reloaded(u) = active[u]
    BY <1>4 DEF Reloaded
  <2> QED BY <1>1, <1>2, <2>1
<1> QED BY <1>3, <1>4

(* A step of operator p leaves the others' commands in order if it leaves the
   units they are at in order, and so the books if it accounts for the unit
   that is its own. *)
LEMMA Frame ==
  ASSUME Inv, NEW p \in Operators, NEW s \in Steps, NEW j \in Jobs,
         os' = os, pc' = [pc EXCEPT ![p] = s], job' = [job EXCEPT ![p] = j],
         \A q \in Operators \ {p} : j.unit = None \/ j.unit # job[q].unit,
         \A u \in Units : u # job[p].unit =>
           /\ main'[u] = main[u] /\ trigger'[u] = trigger[u]
           /\ active'[u] = Unloaded <=> active[u] = Unloaded
           /\ u \in refused => u \in refused',
         CommandOK(p)',
         \A u \in Units : u = job[p].unit =>
           (~Present(u)' /\ active'[u] # Unloaded => u \in refused')
  PROVE  CommandInv'
<1>1. /\ pc' \in [Operators -> Steps] /\ job' \in [Operators -> Jobs]
      /\ job'[p] = j /\ pc'[p] = s
      /\ \A q \in Operators \ {p} : job'[q] = job[q] /\ pc'[q] = pc[q]
  BY DEF Inv, CommandInv
<1>2. ASSUME NEW q \in Operators PROVE CommandOK(q)'
  <2>1. CASE q = p
    BY <2>1
  <2>2. CASE q # p
    <3>1. job'[q] = job[q] /\ pc'[q] = pc[q]
      BY <1>1, <2>2
    <3>2. CommandOK(q)
      BY DEF Inv, CommandInv
    <3>3. CASE job[q].unit = None
      BY <3>1, <3>2, <3>3 DEF Installing, CommandOK
    <3>4. CASE job[q].unit # None
      <4>1. job[q].unit # job[p].unit
        BY <2>2, <3>4 DEF Inv, CommandInv, OneAUnit
      <4>2. job[q].unit \in Units
        BY <3>4, JobFields
      <4>3. PICK u \in Units : u = job[q].unit
        BY <4>2
      <4>4. /\ main'[u] = main[u] /\ trigger'[u] = trigger[u]
            /\ active'[u] = Unloaded <=> active[u] = Unloaded
            /\ u \in refused => u \in refused'
        BY <4>1, <4>3
      <4>5. Has2(u)' <=> Has2(u)
        BY DEF Has2
      <4> QED BY <3>1, <3>2, <4>3, <4>4, <4>5 DEF Installing, CommandOK
    <3> QED BY <3>3, <3>4
  <2> QED BY <2>1, <2>2
<1>3. OneAUnit'
  <2> SUFFICES ASSUME NEW q \in Operators, NEW r \in Operators,
                      job'[q].unit = job'[r].unit, job'[q].unit # None
               PROVE  q = r
    BY DEF OneAUnit
  <2>1. CASE q # p /\ r # p
    BY <1>1, <2>1 DEF Inv, CommandInv, OneAUnit
  <2>2. CASE q = p /\ r # p
    <3>1. j.unit = job[r].unit /\ j.unit # None
      BY <1>1, <2>2
    <3> QED BY <2>2, <3>1
  <2>3. CASE q # p /\ r = p
    <3>1. j.unit = job[q].unit /\ j.unit # None
      BY <1>1, <2>3
    <3> QED BY <2>3, <3>1
  <2> QED BY <2>1, <2>2, <2>3
<1>4. Accounted'
  <2> SUFFICES ASSUME NEW u \in Units, ~Present(u)', active'[u] # Unloaded
               PROVE  u \in refused'
    BY DEF Accounted
  <2>1. CASE u = job[p].unit
    BY <2>1
  <2>2. CASE u # job[p].unit
    <3>1. Present(u)' <=> Present(u)
      BY <2>2 DEF Present, Has2
    <3> QED BY <2>2, <3>1 DEF Inv, CommandInv, Accounted
  <2> QED BY <2>1, <2>2
<1> QED BY <1>1, <1>2, <1>3, <1>4 DEF CommandInv

-----------------------------------------------------------------------------
LEMMA InitTyped == Init => Inv
<1> SUFFICES ASSUME Init PROVE Inv
  OBVIOUS
<1> USE ServiceUnitsAssumption
<1>1. TypeOK
  BY DEF Init, TypeOK, Text, Unloaded
<1>2. \A p \in Operators : pc[p] = "idle" /\ job[p].unit = None
  BY DEF Init, NoJob
<1>3. pc \in [Operators -> Steps] /\ job \in [Operators -> Jobs]
  BY DEF Init, NoJob, Jobs, Steps, Text
<1>4. \A p \in Operators : CommandOK(p)
  BY <1>2 DEF Installing, CommandOK
<1>5. OneAUnit /\ Accounted
  BY <1>2 DEF Init, OneAUnit, Accounted
<1> QED BY <1>1, <1>3, <1>4, <1>5 DEF Inv, CommandInv

(* A command begins on a unit that no other command is at. *)
LEMMA BeginStep ==
  ASSUME Inv, NEW p \in Operators, NEW u \in Units, NEW x \in Text,
         NEW s \in {"main", "stop"}, s = "main" => x # None,
         Begin(p, u, x, s)
  PROVE  Inv'
<1> DEFINE j == [unit |-> u, setting |-> x]
<1> USE ServiceUnitsAssumption
<1>1. s \in Steps /\ j \in Jobs
  BY DEF Steps, Jobs
<1>2. /\ pc' = [pc EXCEPT ![p] = s] /\ job' = [job EXCEPT ![p] = j]
      /\ UNCHANGED <<os, main, trigger, enabled, active, refused>>
      /\ runs' = runs + 1 /\ runs < MaxRuns
  BY DEF Begin, Goto, files, scheduler
<1>3. TypeOK'
  BY <1>2 DEF Inv, TypeOK
<1>4. job'[p] = j /\ pc'[p] = s
  BY <1>2 DEF Inv, CommandInv
<1>5. CommandOK(p)'
  <2>1. job'[p].unit = u /\ job'[p].setting = x /\ u # None
    BY <1>4
  <2> QED BY <1>4, <2>1 DEF Installing, CommandOK
<1>6. job[p].unit \notin Units
  BY JobFields DEF Begin
<1>7. \A q \in Operators \ {p} : j.unit # job[q].unit
  BY DEF Begin
<1>8. CommandInv'
  BY <1>1, <1>2, <1>5, <1>6, <1>7, Frame
<1> QED BY <1>3, <1>8 DEF Inv

(* A command goes on to step s, or returns. *)
Follows(p, s) ==
  pc' = [pc EXCEPT ![p] = s] /\ job' = [job EXCEPT ![p] = IF s = "idle" THEN NoJob ELSE @]

LEMMA ReturnFollows == ASSUME NEW p \in Operators, Return(p) PROVE Follows(p, "idle")
  BY DEF Return, Goto, Follows

LEMMA GotoFollows ==
  ASSUME Inv, NEW p \in Operators, NEW s \in Steps \ {"idle"}, Goto(p, s), UNCHANGED job
  PROVE  Follows(p, s)
<1>1. job = [job EXCEPT ![p] = @]
  BY DEF Inv, CommandInv
<1> QED BY <1>1 DEF Goto, Follows

Elsewhere(u) ==
  \A v \in Units : v # u =>
    /\ main'[v] = main[v] /\ trigger'[v] = trigger[v]
    /\ active'[v] = Unloaded <=> active[v] = Unloaded
    /\ v \in refused => v \in refused'

InOrder(p, s) == s # "idle" => (job'[p] = job[p] /\ pc'[p] = s => CommandOK(p)')

Accounts(u) == ~Present(u)' /\ active'[u] # Unloaded => u \in refused'

(* A step of a command that is at unit u keeps the invariant if it leaves the
   other units alone but for reloads, the state typed, u accounted for, and the
   command in order. *)
LEMMA CommandStep ==
  ASSUME Inv, NEW p \in Operators, NEW s \in Steps, NEW u \in Units,
         u = job[p].unit, os' = os, Follows(p, s), TypeOK',
         Elsewhere(u), InOrder(p, s), Accounts(u)
  PROVE  Inv'
<1> DEFINE j == IF s = "idle" THEN NoJob ELSE job[p]
<1>1. pc' = [pc EXCEPT ![p] = s] /\ job' = [job EXCEPT ![p] = j]
  BY DEF Follows
<1>2. j \in Jobs
  BY ServiceUnitsAssumption DEF NoJob, Jobs, Text, Inv, CommandInv
<1>3. job'[p] = j /\ pc'[p] = s
  BY <1>1 DEF Inv, CommandInv
<1>4. CommandOK(p)'
  <2>1. CASE s = "idle"
    BY <1>3, <2>1 DEF CommandOK, Installing, NoJob
  <2>2. CASE s # "idle"
    BY <1>3, <2>2 DEF InOrder
  <2> QED BY <2>1, <2>2
<1>5. \A q \in Operators \ {p} : j.unit = None \/ j.unit # job[q].unit
  <2>1. CASE s = "idle"
    BY <2>1 DEF NoJob
  <2>2. CASE s # "idle"
    BY <2>2, ServiceUnitsAssumption DEF Inv, CommandInv, OneAUnit
  <2> QED BY <2>1, <2>2
<1>6. CommandInv'
  BY <1>1, <1>2, <1>4, <1>5, Frame DEF Elsewhere, Accounts
<1> QED BY <1>6 DEF Inv

(* What the steps do to the loaded units keeps them typed. *)
ActiveOK ==
  /\ active \in [Units -> Loads]
  /\ \A v \in Units : active[v] = Unloaded \/ None \notin {active[v].main, active[v].trigger}

LEMMA ReloadKept ==
  ASSUME Inv, Reload
  PROVE  /\ ActiveOK'
         /\ \A v \in Units : active'[v] = Unloaded <=> active[v] = Unloaded
<1>1. ActiveOK
  BY DEF Inv, TypeOK, ActiveOK, Loads
<1>2. CASE UNCHANGED active
  BY <1>1, <1>2 DEF ActiveOK
<1>3. CASE active' = [v \in Units |-> Reloaded(v)]
  <2>1. \A v \in Units :
          /\ Reloaded(v) \in Loads
          /\ Reloaded(v) = Unloaded \/ None \notin {Reloaded(v).main, Reloaded(v).trigger}
          /\ Reloaded(v) = Unloaded <=> active[v] = Unloaded
    BY ReloadedIsLoad DEF Inv
  <2>2. \A v \in Units : active'[v] = Reloaded(v)
    BY <1>3
  <2>3. active' \in [Units -> Loads]
    BY <1>3, <2>1
  <2> QED BY <2>1, <2>2, <2>3 DEF ActiveOK
<1> QED BY <1>2, <1>3 DEF Reload

LEMMA StoppedKept ==
  ASSUME Inv, NEW u \in Units, Stopped(u)
  PROVE  /\ ActiveOK' /\ enabled' \subseteq Units /\ refused' \subseteq Units
         /\ \A v \in Units : v # u =>
              active'[v] = active[v] /\ (v \in refused => v \in refused')
         /\ active'[u] = Unloaded \/ u \in refused'
<1>1. ActiveOK /\ enabled \subseteq Units /\ refused \subseteq Units
  BY DEF Inv, TypeOK, ActiveOK, Loads
<1>2. CASE /\ active' = [active EXCEPT ![u] = Unloaded]
           /\ enabled' = enabled \ {u} /\ refused' = refused \ {u}
  <2>1. Unloaded \in Loads
    BY DEF Unloaded, Loads, Text
  <2>2. active' \in [Units -> Loads] /\ active'[u] = Unloaded
        /\ \A v \in Units \ {u} : active'[v] = active[v]
    BY <1>1, <1>2, <2>1 DEF ActiveOK
  <2>3. ActiveOK'
    BY <1>1, <2>2 DEF ActiveOK
  <2> QED BY <1>1, <1>2, <2>2, <2>3
<1>3. CASE /\ refused' = IF Present(u) /\ active[u] # Unloaded
                         THEN refused \cup {u} ELSE refused
           /\ UNCHANGED <<active, enabled>>
  <2>1. ActiveOK'
    BY <1>1, <1>3 DEF ActiveOK
  <2>2. active[u] = Unloaded \/ u \in refused'
    BY <1>3 DEF Inv, CommandInv, Accounted
  <2> QED BY <1>1, <1>3, <2>1, <2>2
<1> QED BY <1>2, <1>3 DEF Stopped

(* The type invariant of what a step of a command changes. *)
LEMMA TypedStep ==
  ASSUME TypeOK, UNCHANGED <<os, runs>>, ActiveOK',
         main' \in [Units -> Text], trigger' \in [Units -> Text],
         \A u \in Units : trigger'[u] # None => os = "linux" /\ u \in Timers,
         enabled' \subseteq Units, refused' \subseteq Units
  PROVE  TypeOK'
BY DEF TypeOK, ActiveOK, Loads

-----------------------------------------------------------------------------
LEMMA WriteStep ==
  ASSUME Inv, NEW p \in Operators, WriteMain(p) \/ WriteTrigger(p)
  PROVE  Inv'
<1> USE ServiceUnitsAssumption
<1>1. PICK u \in Units : u = job[p].unit
  BY JobFields DEF WriteMain, WriteTrigger
<1>2. PICK x \in Text : x = job[p].setting
  BY JobFields
<1>3. x # None /\ (pc[p] = "trigger" => Has2(u) /\ main[u] = x)
  BY <1>1, <1>2 DEF Inv, CommandInv, CommandOK, Installing, WriteMain, WriteTrigger
<1>4. /\ ActiveOK /\ main \in [Units -> Text] /\ trigger \in [Units -> Text]
      /\ enabled \subseteq Units /\ refused \subseteq Units
      /\ \A v \in Units : trigger[v] # None => os = "linux" /\ v \in Timers
  BY DEF Inv, TypeOK, ActiveOK, Loads
<1>5. ~Present(u) /\ active[u] # Unloaded => u \in refused
  BY DEF Inv, CommandInv, Accounted
<1>6. CASE WriteMain(p)
  <2> DEFINE s == IF Has2(u) THEN "trigger" ELSE IF os = "linux" THEN "reload" ELSE "bootout"
  <2>1. /\ main' = [main EXCEPT ![u] = x] /\ Goto(p, s)
        /\ UNCHANGED <<os, trigger, enabled, active, refused, runs, job>>
    BY <1>1, <1>2, <1>6 DEF WriteMain, scheduler
  <2>2. s \in Steps \ {"idle"}
    BY DEF Steps
  <2>3. Follows(p, s)
    BY <2>1, <2>2, GotoFollows
  <2>4. /\ main' \in [Units -> Text] /\ main'[u] = x
        /\ \A v \in Units \ {u} : main'[v] = main[v]
    BY <1>4, <2>1
  <2>5. TypeOK'
    BY <1>4, <2>1, <2>4, TypedStep DEF Inv, ActiveOK
  <2>6. InOrder(p, s)
    BY <1>1, <1>2, <1>3, <2>1, <2>4 DEF InOrder, CommandOK, Installing, Has2, Inv, TypeOK
  <2>7. Accounts(u)
    BY <1>3, <1>5, <2>1, <2>4 DEF Accounts, Present, Has2
  <2>8. Elsewhere(u)
    BY <2>1, <2>4 DEF Elsewhere
  <2> HIDE DEF s
  <2> QED BY <1>1, <2>1, <2>2, <2>3, <2>5, <2>6, <2>7, <2>8, CommandStep
<1>7. CASE WriteTrigger(p)
  <2>1. /\ trigger' = [trigger EXCEPT ![u] = x] /\ Goto(p, "reload")
        /\ UNCHANGED <<os, main, enabled, active, refused, runs, job>>
        /\ Has2(u) /\ main[u] = x
    BY <1>1, <1>2, <1>3, <1>7 DEF WriteTrigger, Trigger, scheduler
  <2>2. Follows(p, "reload")
    BY <2>1, GotoFollows DEF Steps
  <2>3. /\ trigger' \in [Units -> Text] /\ trigger'[u] = x
        /\ \A v \in Units \ {u} : trigger'[v] = trigger[v]
    BY <1>4, <2>1
  <2>4. TypeOK'
    BY <1>4, <2>1, <2>3, TypedStep DEF Inv, ActiveOK, Has2
  <2>5. InOrder(p, "reload")
    BY <1>1, <1>2, <1>3, <2>1, <2>3 DEF InOrder, CommandOK, Installing, Has2
  <2>6. Accounts(u)
    BY <1>3, <1>5, <2>1, <2>3 DEF Accounts, Present, Has2
  <2>7. Elsewhere(u)
    BY <2>1, <2>3 DEF Elsewhere
  <2> QED BY <1>1, <2>1, <2>2, <2>4, <2>5, <2>6, <2>7, CommandStep DEF Steps
<1> QED BY <1>6, <1>7

(* A reload, first of an install on Linux and last of an uninstall. *)
LEMMA ReloadStep ==
  ASSUME Inv, NEW p \in Operators, ReloadFirst(p) \/ ReloadAfter(p)
  PROVE  Inv'
<1>1. PICK u \in Units : u = job[p].unit
  BY JobFields DEF ReloadFirst, ReloadAfter
<1>2. /\ ActiveOK' /\ UNCHANGED <<os, main, trigger, enabled, refused, runs>>
      /\ \A v \in Units : active'[v] = Unloaded <=> active[v] = Unloaded
  BY ReloadKept DEF ReloadFirst, ReloadAfter, files
<1>3. TypeOK'
  BY <1>2 DEF Inv, TypeOK, ActiveOK, Loads
<1>4. Accounts(u)
  BY <1>2 DEF Accounts, Inv, CommandInv, Accounted, Present, Has2
<1>0. Elsewhere(u)
  BY <1>2 DEF Elsewhere
<1>5. CASE ReloadFirst(p)
  <2>1. Follows(p, "enable")
    BY <1>5, GotoFollows DEF ReloadFirst, Steps
  <2>2. InOrder(p, "enable")
    BY <1>1, <1>2, <1>5 DEF InOrder, ReloadFirst, CommandOK, Installing, Has2, Inv, CommandInv
  <2> QED BY <1>0, <1>1, <1>2, <1>3, <1>4, <2>1, <2>2, CommandStep DEF Steps
<1>6. CASE ReloadAfter(p)
  <2>1. Follows(p, "idle")
    BY <1>6, ReturnFollows DEF ReloadAfter
  <2>2. InOrder(p, "idle")
    BY DEF InOrder
  <2> QED BY <1>0, <1>1, <1>2, <1>3, <1>4, <2>1, <2>2, CommandStep DEF Steps
<1> QED BY <1>5, <1>6

LEMMA EnableStep == ASSUME Inv, NEW p \in Operators, Enable(p) PROVE Inv'
<1>1. PICK u \in Units : u = job[p].unit
  BY JobFields DEF Enable
<1>2. os = "linux" /\ main[u] # None /\ (Has2(u) => trigger[u] # None)
  BY <1>1 DEF Inv, CommandInv, CommandOK, Installing, Enable
<1> DEFINE now == IF active[u] = Unloaded THEN Written(u) ELSE Reloaded(u)
           load == [v \in Units |-> IF v = u THEN now ELSE Reloaded(v)]
<1>3. /\ active' = load /\ Follows(p, "idle")
      /\ UNCHANGED <<os, main, trigger, runs>>
      /\ enabled' = enabled \cup {u} /\ refused' = refused \ {u}
  BY <1>1, ReturnFollows DEF Enable, files
<1>4. \A v \in Units :
        /\ Reloaded(v) \in Loads
        /\ Reloaded(v) = Unloaded \/ None \notin {Reloaded(v).main, Reloaded(v).trigger}
        /\ Reloaded(v) = Unloaded <=> active[v] = Unloaded
  BY ReloadedIsLoad DEF Inv
<1>5. /\ now \in Loads
      /\ now = Unloaded \/ None \notin {now.main, now.trigger}
  BY <1>2, <1>4, WrittenIsLoad DEF Inv
<1> HIDE DEF now
<1>6. /\ active' \in [Units -> Loads]
      /\ \A v \in Units : active'[v] = IF v = u THEN now ELSE Reloaded(v)
  BY <1>3, <1>4, <1>5
<1>7. ActiveOK'
  BY <1>4, <1>5, <1>6 DEF ActiveOK
<1>8. TypeOK'
  BY <1>3, <1>7 DEF Inv, TypeOK, ActiveOK, Loads
<1>9. Present(u)'
  BY <1>2, <1>3 DEF Present, Has2
<1>10. Elsewhere(u) /\ InOrder(p, "idle") /\ Accounts(u)
  BY <1>3, <1>4, <1>6, <1>9 DEF Elsewhere, InOrder, Accounts
<1> HIDE DEF load
<1>11. Follows(p, "idle") /\ os' = os
  BY <1>3
<1> QED BY <1>1, <1>8, <1>10, <1>11, CommandStep DEF Steps

LEMMA BootstrapStep == ASSUME Inv, NEW p \in Operators, Bootstrap(p) PROVE Inv'
<1>1. PICK u \in Units : u = job[p].unit
  BY JobFields DEF Bootstrap
<1>2. os = "darwin" /\ main[u] # None /\ ~Has2(u)
  BY <1>1 DEF Inv, CommandInv, CommandOK, Installing, Bootstrap, Has2
<1>3. /\ active' = [active EXCEPT ![u] = Written(u)] /\ Follows(p, "idle")
      /\ UNCHANGED <<os, main, trigger, enabled, refused, runs>>
  BY <1>1, ReturnFollows DEF Bootstrap, files
<1>4. Written(u) \in Loads /\ None \notin {Written(u).main, Written(u).trigger}
  BY <1>2, WrittenIsLoad DEF Inv
<1>5. /\ active' \in [Units -> Loads] /\ active'[u] = Written(u)
      /\ \A v \in Units \ {u} : active'[v] = active[v]
  BY <1>3, <1>4 DEF Inv, TypeOK, Loads
<1>6. ActiveOK'
  BY <1>4, <1>5 DEF ActiveOK, Inv, TypeOK
<1>7. TypeOK'
  BY <1>3, <1>6 DEF Inv, TypeOK, ActiveOK, Loads
<1>8. Present(u)'
  BY <1>2, <1>3 DEF Present, Has2
<1>9. Elsewhere(u) /\ InOrder(p, "idle") /\ Accounts(u)
  BY <1>3, <1>5, <1>8 DEF Elsewhere, InOrder, Accounts
<1>10. Follows(p, "idle") /\ os' = os
  BY <1>3
<1> QED BY <1>1, <1>7, <1>9, <1>10, CommandStep DEF Steps

(* An install on macOS and an uninstall stop the unit. *)
LEMMA StopStep ==
  ASSUME Inv, NEW p \in Operators, BootoutFirst(p) \/ Stop(p)
  PROVE  Inv'
<1>1. PICK u \in Units : u = job[p].unit
  BY JobFields DEF BootoutFirst, Stop
<1>2. /\ Stopped(u) /\ UNCHANGED <<os, main, trigger, runs>>
  BY <1>1 DEF BootoutFirst, Stop, files
<1>3. /\ ActiveOK' /\ enabled' \subseteq Units /\ refused' \subseteq Units
      /\ \A v \in Units : v # u =>
           active'[v] = active[v] /\ (v \in refused => v \in refused')
      /\ active'[u] = Unloaded \/ u \in refused'
  BY <1>2, StoppedKept
<1>4. TypeOK'
  BY <1>2, <1>3 DEF Inv, TypeOK, ActiveOK, Loads
<1>0. Elsewhere(u) /\ Accounts(u)
  BY <1>2, <1>3 DEF Elsewhere, Accounts
<1>5. CASE BootoutFirst(p)
  <2>1. Follows(p, "bootstrap")
    BY <1>5, GotoFollows DEF BootoutFirst, Steps
  <2>2. InOrder(p, "bootstrap")
    BY <1>1, <1>2, <1>5 DEF InOrder, BootoutFirst, CommandOK, Installing, Inv, CommandInv
  <2> QED BY <1>0, <1>1, <1>2, <1>4, <2>1, <2>2, CommandStep DEF Steps
<1>6. CASE Stop(p)
  <2>1. Follows(p, "remove")
    BY <1>6, GotoFollows DEF Stop, Advance, UninstallStep, Steps
  <2>2. InOrder(p, "remove")
    BY <1>1, <1>3, <1>6, ServiceUnitsAssumption DEF InOrder, Stop, CommandOK, Installing
  <2> QED BY <1>0, <1>1, <1>2, <1>4, <2>1, <2>2, CommandStep DEF Steps
<1> QED BY <1>5, <1>6

(* The files of a unit go after the scheduler was asked to stop it. *)
LEMMA RemoveTriggerStep == ASSUME Inv, NEW p \in Operators, RemoveTrigger(p) PROVE Inv'
<1>1. PICK u \in Units : u = job[p].unit
  BY JobFields DEF RemoveTrigger
<1>2. active[u] = Unloaded \/ u \in refused
  BY <1>1 DEF Inv, CommandInv, CommandOK, Installing, RemoveTrigger
<1>3. /\ UNCHANGED <<os, main, enabled, active, refused, runs, pc, job>>
      /\ pc[p] = "remove" /\ trigger' = [trigger EXCEPT ![u] = None]
  BY <1>1 DEF RemoveTrigger, scheduler
<1>4. Follows(p, "remove")
  BY <1>3 DEF Follows, Inv, CommandInv
<1>5. /\ trigger' \in [Units -> Text]
      /\ \A v \in Units \ {u} : trigger'[v] = trigger[v]
      /\ trigger'[u] # None => trigger[u] # None
  BY <1>3 DEF Inv, TypeOK, Text
<1>6. TypeOK'
  BY <1>3, <1>5, TypedStep DEF Inv, TypeOK, ActiveOK, Loads
<1>7. InOrder(p, "remove")
  BY <1>1, <1>2, <1>3, ServiceUnitsAssumption DEF InOrder, Installing, CommandOK
<1>9. Elsewhere(u) /\ Accounts(u)
  BY <1>2, <1>3, <1>5 DEF Elsewhere, Accounts
<1> QED BY <1>1, <1>3, <1>4, <1>6, <1>7, <1>9, CommandStep DEF Steps

LEMMA RemoveMainStep == ASSUME Inv, NEW p \in Operators, RemoveMain(p) PROVE Inv'
<1>1. PICK u \in Units : u = job[p].unit
  BY JobFields DEF RemoveMain
<1> DEFINE s == IF os = "linux" THEN "reload after" ELSE "idle"
<1>2. active[u] = Unloaded \/ u \in refused
  BY <1>1 DEF Inv, CommandInv, CommandOK, Installing, RemoveMain
<1>3. /\ UNCHANGED <<os, enabled, active, refused, runs>>
      /\ main' = [main EXCEPT ![u] = None] /\ trigger' = trigger
  BY <1>1 DEF RemoveMain, scheduler
<1>4. Follows(p, s)
  <2>1. CASE os = "linux"
    <3>1. Goto(p, "reload after") /\ UNCHANGED job
      BY <2>1 DEF RemoveMain, Advance, UninstallStep
    <3> QED BY <2>1, <3>1, GotoFollows DEF Steps
  <2>2. CASE os # "linux"
    <3>1. Return(p)
      BY <2>2 DEF RemoveMain, Advance, UninstallStep
    <3> QED BY <2>2, <3>1, ReturnFollows
  <2> QED BY <2>1, <2>2
<1>5. /\ main' \in [Units -> Text] /\ trigger' \in [Units -> Text]
      /\ \A v \in Units \ {u} : main'[v] = main[v] /\ trigger'[v] = trigger[v]
      /\ trigger'[u] # None => trigger[u] # None
  BY <1>3 DEF Inv, TypeOK, Text
<1>6. TypeOK'
  BY <1>3, <1>5, TypedStep DEF Inv, TypeOK, ActiveOK, Loads
<1>7. InOrder(p, s)
  BY <1>1, <1>3, ServiceUnitsAssumption DEF InOrder, Installing, CommandOK
<1>8. s \in Steps
  BY DEF Steps
<1>9. Elsewhere(u) /\ Accounts(u)
  BY <1>2, <1>3, <1>5 DEF Elsewhere, Accounts
<1> HIDE DEF s
<1> QED BY <1>1, <1>3, <1>4, <1>6, <1>7, <1>8, <1>9, CommandStep

(* A command that is refused or dies returns; of the scheduler's state at most
   a link has changed. *)
LEMMA EndStep ==
  ASSUME Inv, NEW p \in Operators, EnableRefused(p) \/ BootstrapRefused(p) \/ Die(p)
  PROVE  Inv'
<1>1. PICK u \in Units : u = job[p].unit
  BY JobFields DEF EnableRefused, BootstrapRefused, Die
<1>2. /\ UNCHANGED <<os, main, trigger, active, refused, runs>> /\ Follows(p, "idle")
      /\ enabled' \in {enabled, enabled \cup {u}}
  BY <1>1, ReturnFollows DEF EnableRefused, BootstrapRefused, Die, files, scheduler
<1>3. TypeOK'
  BY <1>2 DEF Inv, TypeOK
<1>4. Accounts(u)
  BY <1>2 DEF Accounts, Inv, CommandInv, Accounted, Present, Has2
<1>5. Elsewhere(u) /\ InOrder(p, "idle")
  BY <1>2 DEF Elsewhere, InOrder
<1> QED BY <1>1, <1>2, <1>3, <1>4, <1>5, CommandStep DEF Steps

LEMMA NextStep == Inv /\ [Next]_vars => Inv'
<1> SUFFICES ASSUME Inv, [Next]_vars PROVE Inv'
  OBVIOUS
<1>1. CASE UNCHANGED vars
  BY <1>1 DEF vars, files, scheduler, Inv, TypeOK, CommandInv, CommandOK, Installing, OneAUnit,
              Accounted, Present, Has2
<1>2. ASSUME NEW p \in Operators, NEW u \in Units, Uninstall(p, u) PROVE Inv'
  BY <1>2, BeginStep DEF Uninstall, UninstallStep, Text
<1>3. ASSUME NEW p \in Operators, NEW u \in Units, NEW x \in Settings, Install(p, u, x)
      PROVE  Inv'
  BY <1>3, BeginStep, ServiceUnitsAssumption DEF Install, Text
<1> QED
  BY <1>1, <1>2, <1>3, WriteStep, ReloadStep, EnableStep, BootstrapStep, StopStep,
     RemoveTriggerStep, RemoveMainStep, EndStep DEF Next

(* Every reachable state is typed: triggers are second files of triggered units
   on Linux, and what the scheduler has loaded is what some install wrote. *)
THEOREM TypeCorrect == Spec => []TypeOK
<1>1. Inv => TypeOK
  BY DEF Inv
<1> QED BY <1>1, InitTyped, NextStep, PTL DEF Spec

(* On both systems, whatever the schedulers refuse, wherever commands die and
   however they overlap on different units: no unit runs without files, unless
   the scheduler refused to stop it. *)
THEOREM OrphanFree == Spec => []NoOrphans
<1>1. Inv => NoOrphans
  BY DEF Inv, CommandInv, Accounted, NoOrphans, Present
<1> QED BY <1>1, InitTyped, NextStep, PTL DEF Spec

(* What an install reports as done is done: the files have what was asked when
   the scheduler reads them, for one command at a time is at a unit, so that it
   is loaded, triggered and run so; only a server that systemd runs already
   goes on as it was (service_unit/). *)
THEOREM InstallsTake == Spec => InstallTakes
<1> DEFINE Takes ==
       \A p \in Operators, u \in Units :
       u = job[p].unit /\ (Enable(p) \/ Bootstrap(p)) =>
       LET asked == job[p].setting
       IN /\ Loaded(u)'
          /\ \/ active'[u] = [main |-> asked, trigger |-> asked]
             \/ os = "linux" /\ u \in Services /\ active'[u] = active[u]
<1>1. Inv => [Takes]_vars
  <2> SUFFICES ASSUME Inv, NEW p \in Operators, NEW u \in Units, u = job[p].unit,
                      Enable(p) \/ Bootstrap(p)
               PROVE  /\ Loaded(u)'
                      /\ \/ active'[u] = [main |-> job[p].setting, trigger |-> job[p].setting]
                         \/ os = "linux" /\ u \in Services /\ active'[u] = active[u]
    OBVIOUS
  <2> DEFINE asked == job[p].setting
  <2>1. /\ asked # None /\ main[u] = asked /\ (Has2(u) => trigger[u] = asked)
        /\ os = IF pc[p] = "enable" THEN "linux" ELSE "darwin"
    <3>1. CommandOK(p)  BY DEF Inv, CommandInv
    <3>2. CASE Enable(p)  BY <3>1, <3>2 DEF CommandOK, Installing, Enable
    <3>3. CASE Bootstrap(p)  BY <3>1, <3>3 DEF CommandOK, Installing, Bootstrap, Has2
    <3> QED BY <3>2, <3>3
  <2>2. Written(u) = [main |-> asked, trigger |-> asked] /\ Present(u)
    BY <2>1 DEF Written, Present
  <2>3. Present(u)' <=> Present(u)
    BY DEF Enable, Bootstrap, files, Present, Has2
  <2>4. CASE Enable(p)
    <3>1. /\ active'[u] = IF active[u] = Unloaded THEN Written(u) ELSE Reloaded(u)
          /\ u \in enabled' /\ os = "linux" /\ os' = os
      BY <2>1, <2>4 DEF Enable
    <3>2. Reloaded(u) = IF u \in Timers /\ active[u] # Unloaded THEN Written(u) ELSE active[u]
      BY <2>1, <2>2 DEF Reloaded
    <3>3. Loaded(u)'
      BY <2>2, <2>3, <3>1 DEF Loaded
    <3> QED BY <2>2, <3>1, <3>2, <3>3 DEF Units
  <2>5. CASE Bootstrap(p)
    <3>1. active'[u] = Written(u) /\ os = "darwin" /\ os' = os
      BY <2>1, <2>5 DEF Bootstrap, Inv, TypeOK
    <3>2. Written(u) # Unloaded
      BY <2>1, <2>2 DEF Unloaded
    <3>3. Loaded(u)'
      BY <2>2, <2>3, <3>1, <3>2 DEF Loaded
    <3> QED BY <2>2, <3>1, <3>3
  <2> QED BY <2>4, <2>5
<1> QED BY <1>1, InitTyped, NextStep, PTL DEF Spec, InstallTakes
=============================================================================
