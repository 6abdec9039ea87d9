--------------------------- MODULE SessionRegister ---------------------------
(***************************************************************************)
(* What the session store is to the processes that share it, without       *)
(* files: every session is a register that one process at a time may own.  *)
(* It is made once; its value changes only while it is owned and by its    *)
(* owner; and it is given up for good by its owner, who removes it or goes *)
(* on without its lock, or by the process that is still making it.  After  *)
(* that nothing is promised of it.                                         *)
(***************************************************************************)
EXTENDS FiniteSets

CONSTANTS Procs, Ids,
          Values,   \* values of a register
          NoValue   \* the value of one that has not been written

VARIABLES stage,    \* stage[i]: "unused", "live" or "gone"
          makers,   \* makers[i]: the process that is still making session i
          owners,   \* owners[i]: the process that owns it
          value     \* value[i]: its value while it is live

register == <<stage, makers, owners, value>>

RegisterInit == /\ stage = [i \in Ids |-> "unused"]
                /\ makers = [i \in Ids |-> {}]
                /\ owners = [i \in Ids |-> {}]
                /\ value = [i \in Ids |-> NoValue]

Make(p, i) == /\ stage[i] = "unused"
              /\ stage' = [stage EXCEPT ![i] = "live"]
              /\ makers' = [makers EXCEPT ![i] = {p}]
              /\ UNCHANGED <<owners, value>>

\* The process is done with making it, or has died over it.
Made(p, i) == /\ stage[i] = "live" /\ makers[i] = {p}
              /\ makers' = [makers EXCEPT ![i] = {}]
              /\ owners' = [owners EXCEPT ![i] = @ \ {p}] \/ UNCHANGED owners
              /\ UNCHANGED <<stage, value>>

Take(p, i) == /\ stage[i] = "live" /\ owners[i] = {}
              /\ owners' = [owners EXCEPT ![i] = {p}]
              /\ UNCHANGED <<stage, makers, value>>

Write(p, i, v) == /\ stage[i] = "live" /\ owners[i] = {p}
                  /\ value' = [value EXCEPT ![i] = v]
                  /\ UNCHANGED <<stage, makers, owners>>

Leave(p, i) == /\ stage[i] = "live" /\ owners[i] = {p}
               /\ owners' = [owners EXCEPT ![i] = {}]
               /\ UNCHANGED <<stage, makers, value>>

GiveUp(p, i) == /\ stage[i] = "live" /\ (owners[i] = {p} \/ makers[i] = {p})
                /\ stage' = [stage EXCEPT ![i] = "gone"]
                /\ makers' = [makers EXCEPT ![i] = {}]
                /\ owners' = [owners EXCEPT ![i] = {}]
                /\ value' = [value EXCEPT ![i] = NoValue]

RegisterNext == \E p \in Procs, i \in Ids :
                  \/ Make(p, i) \/ Made(p, i) \/ Take(p, i) \/ Leave(p, i)
                  \/ (\E v \in Values : Write(p, i, v)) \/ GiveUp(p, i)

RegisterSpec == RegisterInit /\ [][RegisterNext]_register
=============================================================================
