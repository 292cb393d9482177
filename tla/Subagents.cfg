\* Two slots: the search finds one free, or it must wait while its own parent and
\* another run hold both.  Once every dispatch has settled, or the process has
\* stopped, nothing is left to do: no deadlock check.
SPECIFICATION MCSpec
CONSTANTS
  research = research
  search = search
  forked = forked
  second = second
  chat = chat
  Goals = {g1}
  Messages = {m1}
  IterationBudget = 2
  MaxRestarts = 1
  Top = Top
  Tasks <- MCTasks
  Parent <- MCParent
  Background <- MCBackground
  Conversation <- MCConversation
  Forked <- MCForked
  Untimed <- MCUntimed
  Cap = 2
  MaxBackground = 1
INVARIANTS SlotsAccounted AnnouncedOnce FlagReachesIteration
PROPERTIES EveryDispatchSettles EveryRunIsAnnounced ChildrenExit
  InterruptEndsRunner StopDrains BootResumes
CHECK_DEADLOCK FALSE
