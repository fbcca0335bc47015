SPECIFICATION OnboardingSpec
CONSTANTS
  t1 = t1
  founder = founder
  colleague = colleague
  Tabs = {t1}
  Available <- SomeTours
  Links <- SomeLinks
  Members = {founder, colleague}
  Founder = founder
  Held <- FounderAlone
  Hidden = {}
  Already = {"identity", "theme", "path", "course", "module", "progress"}
  Visits = {"preview"}
  MaxTurns = 1
INVARIANTS NothingSkippedOrReplayed
PROPERTIES MetStepsPass FounderLaunches
