----------------------------- MODULE Operations -----------------------------
(***************************************************************************)
(* The areas of the web server that watch and tell: logins and users, the  *)
(* outage watch with its incidents, the service checks, the threshold      *)
(* rules with their alerts, and the hardware monitoring.  No step of one   *)
(* area writes what another one models, so each behaviour stays at one of  *)
(* them.                                                                   *)
(***************************************************************************)
EXTENDS AccountDesk, IncidentDesk, ServiceDesk, RuleDesk, HardwareDesk

\* The areas a behaviour does not visit start in one state.
Resting ==
  /\ desk = "incidents" \/ \A i \in IncidentIds : incident[i] = Nil
  /\ desk = "services" \/ svc \in [SvcIds -> {CHOOSE row \in CheckRows : TRUE, Nil}]
  /\ desk \in {"rules", "alerts"} \/ \A n \in NoticeIds : notice[n] = Nil

OperationsInit ==
  /\ DeskInit
  /\ AccountInit /\ IncidentInit /\ ServiceInit /\ RuleInit /\ HardwareInit
  /\ Resting

OperationsNext ==
  \/ /\ desk = "accounts" /\ AccountNext
     /\ UNCHANGED <<incidentVars, serviceVars, ruleVars, hardwareVars>>
  \/ /\ desk = "incidents" /\ IncidentNext
     /\ UNCHANGED <<accountVars, serviceVars, ruleVars, hardwareVars>>
  \/ /\ desk = "services" /\ ServiceNext
     /\ UNCHANGED <<accountVars, incidentVars, ruleVars, hardwareVars>>
  \/ /\ desk \in {"rules", "alerts"} /\ RuleNext
     /\ UNCHANGED <<accountVars, incidentVars, serviceVars, hardwareVars>>
  \/ /\ desk = "hardware" /\ HardwareNext
     /\ UNCHANGED <<accountVars, incidentVars, serviceVars, ruleVars>>

operationsVars ==
  <<accountVars, incidentVars, serviceVars, ruleVars, hardwareVars, deskVars>>

\* The server goes on with the logins it has, locks run out, and people without a
\* session keep on logging in.
AccountFairness ==
  /\ \A s \in LoginSlots :
       WF_<<accountVars, deskVars>>(desk = "accounts" /\ LoginStep(s))
  /\ \A u \in People :
       /\ WF_<<accountVars, deskVars>>(desk = "accounts" /\ LockRunsOut(u))
       /\ SF_<<accountVars, deskVars>>(desk = "accounts" /\ \E s \in LoginSlots : Submit(s, u))

\* cron starts an outage check every minute, and one that is started goes on.
IncidentFairness ==
  \A c \in Checks : WF_<<incidentVars, deskVars>>(desk = "incidents" /\ CheckStep(c))

OperationsSpec ==
  OperationsInit /\ [][OperationsNext]_operationsVars /\ AccountFairness /\ IncidentFairness

OperationsTypeOK ==
  /\ DeskTypeOK
  /\ AccountTypeOK /\ IncidentTypeOK /\ ServiceTypeOK /\ RuleTypeOK
  /\ HardwareTypeOK
=============================================================================
