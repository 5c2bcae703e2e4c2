SPECIFICATION HaltSpec
CONSTANTS
  p1 = p1
  cuda = cuda
  r1 = r1
  r2 = r2
  f1 = f1
  f2 = f2
  f3 = f3
  Procs = {p1}
  Names = {cuda}
  Files = {f1, f2, f3}
  Releases = {r1, r2}
  Payload <- OnePayload
  Versioned = {r1, r2}
  Missing = Missing
  Bad = Bad
  ByHand = ByHand
  Interrupts = {"install", "remove"}
INVARIANTS NoForeignBytes SoundUntilHalted
