----------------------------- MODULE MCScanCycle -----------------------------
(* Instances of ScanCycle: the profiles, references and repositories.      *)
EXTENDS ScanCycle

CONSTANTS r1, r2, r3, v1, v2

Profile(ids, fixable, prio, critical, idle, eolIds, eolPrio, eosl) ==
    [ids |-> ids, fixable |-> fixable, prio |-> prio, critical |-> critical, idle |-> idle,
     eolIds |-> eolIds, eolPrio |-> eolPrio, eosl |-> eosl]

Clean == Profile({}, FALSE, PriorityLow, FALSE, FALSE, {}, PriorityLow, FALSE)
\* A critical CVE without a fix in a package nobody uses, and in use.
Idle == Profile({v1}, FALSE, PriorityWatch, TRUE, TRUE, {}, PriorityLow, FALSE)
Used == Profile({v1}, FALSE, PriorityWatch, TRUE, FALSE, {}, PriorityLow, FALSE)
\* The CVE enters the KEV catalogue; a fix appears.
Exploited == Profile({v1}, FALSE, PriorityActNow, TRUE, FALSE, {}, PriorityLow, FALSE)
ExploitedHigh == Profile({v1}, FALSE, PriorityActNow, FALSE, FALSE, {}, PriorityLow, FALSE)
Fixed == Profile({v1, v2}, TRUE, PriorityWatch, TRUE, FALSE, {}, PriorityLow, FALSE)
\* The CVE is only found as end of life, alone or beside an ordinary one in an
\* image whose base OS is end of life too.
EndOfLife == Profile({}, FALSE, PriorityLow, TRUE, FALSE, {v1}, PriorityWatch, FALSE)
Both == Profile({v2}, FALSE, PriorityLow, FALSE, FALSE, {v1}, PriorityActNow, TRUE)

FailureProfiles == {Clean, Idle, Exploited, EndOfLife, Both}
\* To see RecoveryIsQuiet fail.
OutageProfiles == {Clean, Idle, Fixed, Exploited, ExploitedHigh}
DeliveryProfiles == {Idle, Fixed, EndOfLife}
MovedProfiles == {Idle, Used}

OneRepo == [r \in Refs |-> "repo"]
=============================================================================
