--------------------------- MODULE MCClashProcess ---------------------------
(***************************************************************************)
(* What has to come back after a failure: the child and its announcements, *)
(* and a proxy group of the core.  A behaviour is about one of the two,    *)
(* the subject; the other stays as it is.                                  *)
(***************************************************************************)
EXTENDS ClashProcess, TLC

CONSTANTS main, binder, Subjects, Dialers, Fixable, Tolerance, MaxFailedTimes, MaxFlips

MCCallers == {main, binder}

VARIABLES
    subject,
    kind, up, flips, alive, delay, selected, fastNode, call, result, old, at, of, choice,
    failedTimes, mutex, failedTesting, touched, test, recent, met, stale
groupVars == <<kind, up, flips, alive, delay, selected, fastNode, call, result, old, at, of,
               choice, failedTimes, mutex, failedTesting, touched, test, recent, met, stale>>
allVars == <<subject, vars, groupVars>>

Group == INSTANCE UrlTest WITH Speed <- <<1, 2>>

SuiteInit ==
    /\ subject \in Subjects
    /\ Init
    /\ Group!Init
    /\ subject = "process" => kind = "url-test"

Child(A) == subject = "process" /\ A /\ UNCHANGED <<subject, groupVars>>
InGroup(A) == subject = "group" /\ A /\ UNCHANGED <<subject, vars>>

SuiteNext == Child(Next) \/ InGroup(Group!Next)

(* The fairness of the two modules, each for its own subject.               *)
SuiteSpec ==
    /\ SuiteInit /\ [][SuiteNext]_allVars
    /\ WF_allVars(Child(StartStep)) /\ WF_allVars(Child(Deliver))
    /\ \A c \in Children :
         /\ WF_allVars(Child(ReaderStep(c)))
         /\ WF_allVars(Child(ChildPrintsPid(c) \/ ChildServes(c)))
    /\ \A d \in Dialers : WF_allVars(InGroup(Group!Connection(d)))
    /\ \A p \in Group!Proxies : WF_allVars(InGroup(Group!Test(p)))
    /\ WF_allVars(InGroup(Group!ResultExpires)) /\ WF_allVars(InGroup(Group!RecentExpires))
    /\ WF_allVars(InGroup(Group!Tick))

(* While some proxy of a group works, its connections end up on one that    *)
(* does, whatever was shared or remembered before it failed.                *)
GroupRecovers == Group!GroupRecovers
=============================================================================
