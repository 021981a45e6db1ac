SPECIFICATION Spec
SYMMETRY AddrSymmetry
CONSTANTS
  Addr = {a1, a2, a3}
  None = None
  Commands = {"USER", "PASS", "RNFR", "RNTO", "ABOR", "PASV", "PORT", "REST", "RETR", "STOR", "NLST", "MLSD", "STAT", "PWD", "ALLO", "NOOP", "QUIT", "OTHER"}
  MaxBatch = 2
INVARIANTS TypeOK SocketOwnership PollAssertions CommandIsClean TransferHasFile FreshBuffer LoggedInToAct OneFinalReply
PROPERTIES DataSocketsShutDown TransferUndisturbed
