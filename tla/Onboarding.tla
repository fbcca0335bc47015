------------------------------ MODULE Onboarding ------------------------------
(***************************************************************************)
(* Onboarding: the guided tours and the launch checklist.  They share no   *)
(* state: a behaviour is about one of them, its scene, and the other stays *)
(* as it begins.                                                           *)
(***************************************************************************)
EXTENDS Walkthrough, LaunchChecklist

VARIABLE scene

onboardingVars == << scene, tourVars, listVars >>

OnboardingInit == scene \in {"tour", "list"} /\ TourInit /\ ListInit

InTour == scene = "tour" /\ UNCHANGED << scene, listVars >>
InList == scene = "list" /\ UNCHANGED << scene, tourVars >>

OnboardingNext == \/ InTour /\ TourNext
                  \/ InList /\ ListNext

\* The fairness of the two modules, each in its own scene.
OnboardingFairness ==
  /\ \A t \in Tabs :
       /\ WF_onboardingVars(InTour /\ RenderTour(t)) /\ WF_onboardingVars(InTour /\ Resume(t))
       /\ WF_onboardingVars(InTour /\ Poll(t)) /\ WF_onboardingVars(InTour /\ Arrive(t))
  /\ WF_onboardingVars(InList /\ FollowNext(Founder))
  /\ \A m \in Members :
       /\ WF_onboardingVars(InList /\ Dashboard(m)) /\ WF_onboardingVars(InList /\ NewSession(m))
       /\ \A visit \in Visits : WF_onboardingVars(InList /\ Recorded(m, visit))
       /\ WF_onboardingVars(InList /\ upsertLifecycle(m))

OnboardingSpec == OnboardingInit /\ [][OnboardingNext]_onboardingVars /\ OnboardingFairness

-----------------------------------------------------------------------------
\* LaunchCompletes, of a founder on their own.
FounderLaunches == scene = "list" => LaunchCompletes

\* A tour skips no step and keeps its place; the celebration was earned, and
\* is not shown again.
NothingSkippedOrReplayed ==
  NoStepPassedOver /\ PlaceIsStored /\ CelebrationEarned /\ CelebrationNeverReplays
=============================================================================
