SPECIFICATION Spec
CONSTANTS
  accepted = accepted
  connecting = connecting
  read = read
  write = write
  connect = connect
  Fds = {accepted, connecting}
  Opened = {connecting}
  States = {s1, s2}
  Ops = {read, write, connect}
  Kind <- MCKind
  Fd <- MCFd
  Task = Task
  None = None
INVARIANTS
  WorkBalance
  QueuedOnce
  NoneForgotten
  ConnectDecided
PROPERTY ReadyCompletes
