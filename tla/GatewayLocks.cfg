SPECIFICATION FairSpec
CONSTANTS
  RecvErrors = {"hard", "again"}
INVARIANTS TypeOK NoOrphanLock ExclusionUnlessOverwritten WaitsInSession
PROPERTIES NoSocketLeak FrameCompletes GatewayRecovers SocketReleased
