CONSTANTS
  QueueLen = 2
  Overtakes = 1
SPECIFICATION FairSpec
INVARIANT TypeOK
INVARIANT NotDrawnWhileSent
INVARIANT ProcessorDrawsAlone
INVARIANT GateIsOpened
INVARIANT IInv
PROPERTY NoFrameLost
PROPERTY FrameReachesPanel
PROPERTY RenderingEnds
