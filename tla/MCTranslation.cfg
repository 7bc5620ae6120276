SPECIFICATION Spec
CONSTANTS
  Parts = {"language", "engines", "objects", "foreign"}
  TextLength = 4
  MaxFrames = 3
  MaxMessages = 3
  IntBits = 4
  Temporaries = 3
  MaxCode = 8
  MaxNative = 2
  Fuel = 30
  CodeLength = 4
  MaxI32 = 400000
  MaxU32 = 800001
  MaxI64 = 1000000
  MaxU64 = 2000001
  ExactDouble = 900000
  LastToken = 2
  Errors = {0, 2}
  Granted = {
    "system.env.read", "system.process.id", "system.process.parent_id", "system.user.effective_id",
    "system.group.id", "system.group.effective_id", "system.time.sleep", "system.fs.mkdir",
    "system.fs.remove", "system.fs.exists", "system.fs.stat", "system.fs.lstat",
    "system.fs.dir.open", "system.fs.dir.read", "system.fs.dir.close", "system.file.seek",
    "system.file.tell", "system.file.flush", "system.file.open", "system.file.read",
    "system.file.write", "system.file.close", "system.file.error", "system.net.resolve.open",
    "system.net.resolve.next", "system.net.resolve.close", "system.process.new",
    "system.process.arg", "system.process.command_line", "system.process.env",
    "system.process.start", "system.process.poll", "system.process.read", "system.process.wait",
    "system.process.error", "system.process.close", "system.net.socket.connect",
    "system.net.socket.listen", "system.net.socket.accept", "system.net.socket.timeout",
    "system.net.socket.kind", "system.net.socket.send", "system.net.socket.recv",
    "system.net.socket.close", "system.net.tls.upgrade", "system.net.tls.send",
    "system.net.tls.recv", "system.time.monotonic", "system.time.realtime", "system.time.local",
    "system.entropy.read", "system.ffi.error", "system.ffi.layout", "machine.net.socket.connect",
    "machine.net.socket.listen", "machine.net.socket.accept", "machine.net.socket.timeout",
    "machine.net.socket.kind", "machine.net.socket.send", "machine.net.socket.recv",
    "machine.net.socket.close", "host.own"}
INVARIANTS
  EditorAnswered
  EnginesAgree
  ObjectsBehave
  ForeignCallsRight
CHECK_DEADLOCK FALSE
