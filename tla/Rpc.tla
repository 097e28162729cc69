-------------------------------- MODULE Rpc --------------------------------
(***************************************************************************)
(* A remote procedure call through the code that rpcgen generates: the     *)
(* client's stub packs the arguments, rpc_dispatch of the server unpacks   *)
(* them, calls the handler and packs its results into a buffer it never    *)
(* clears, and the stub unpacks them.  Messages are sequences of bytes;    *)
(* a byte has BYTE values and an int WORD bytes.  Every value is a         *)
(* sequence of numbers: an int or a size of one, a long of its low and its *)
(* high word, a string or blob of its bytes.  The handlers of the block    *)
(* driver are its own; any other handler returns whatever its buffers have *)
(* room for.                                                               *)
(***************************************************************************)
EXTENDS Rpcgen, BlockDriver

CONSTANTS
    BYTE, WORD,
    BufSize,        \* bytes of data in the two buffers of rpc_dispatch
    Files,          \* the .rpc files, as sequences of words
    Declarations,   \* declarations that are also read with a mistake in them
    Mistakes,       \* words put in by mistake
    Ints, Highs,    \* values of an int, and high words of a long
    Strings, Blobs, \* values of a string, without its NUL, and of a blob
    Rooms,          \* sizes of a caller's buffers
    MaxCalls        \* bound: calls made

ASSUME RpcAssumption ==
    /\ BYTE > 8 /\ WORD \in Nat \ {0} /\ BufSize \in Nat /\ 0 \notin Rooms
    /\ \A s \in Strings : \A i \in DOMAIN s : s[i] # 0

VARIABLES
    source, fns,    \* what rpcgen reads, and the functions it generates code for
    phase,          \* where the call is
    fn, args,       \* the function called and the caller's arguments
    seen,           \* the arguments as the handler sees them
    gave,           \* the handler's result and the contents of the out arguments
    msg,            \* the data of the message sent last
    snd_buf,        \* the server's buffer for replies
    got,            \* the result and out arguments as the caller gets them
    calls

rpcvars == <<source, fns, phase, fn, args, seen, gave, msg, snd_buf, got, calls>>
vars == <<rpcvars, io>>

None == [ret |-> << >>, outs |-> << >>]
W == BYTE ^ WORD
-----------------------------------------------------------------------------
(* Bytes. *)

Word(n) == [i \in 1 .. WORD |-> ((n % W) \div BYTE ^ (i - 1)) % BYTE]
Value(bytes) == FoldLeftDomain(LAMBDA v, i : v + bytes[i] * BYTE ^ (i - 1), 0, bytes)
Signed(n) == IF n >= W \div 2 THEN n - W ELSE n
Long(v) == Word(v[1]) \o Word(v[2])

(* The letters i, l, s, b and I, L, S, B. *)
InCode(type) == CASE type = "int" -> 1 [] type = "long" -> 2 [] type = "string" -> 3 [] type = "blob" -> 4
OutCode(type) == 4 + InCode(type)

Out(f) == {i \in DOMAIN f.params : f.params[i].mod = "out"}
HasResult(f) == f.ret # "void" \/ Out(f) # {}
Sized(type) == type \in {"string", "blob"}
-----------------------------------------------------------------------------
(* generate_client_marshaller_argserializer. *)

ArgBytes(p, v) ==
    IF p.mod = "out"
    THEN IF Sized(p.type) THEN <<OutCode(p.type)>> \o Word(v[1]) ELSE << >>
    ELSE <<InCode(p.type)>>
         \o CASE p.type = "int" -> Word(v[1])
              [] p.type = "long" -> Long(v)
              [] p.type = "string" -> Word(Len(v) + 1) \o v \o <<0>>
              [] p.type = "blob" -> Word(Len(v)) \o v
argserializer(f, a) == FlattenSeq([i \in DOMAIN f.params |-> ArgBytes(f.params[i], a[i])])

(* A cursor over a message: the next position, the values read, and        *)
(* whether every assertion has held.                                       *)
Start == [pos |-> 1, vals |-> << >>, ok |-> TRUE]
Room(c, m, n) == c.pos + n - 1 <= Len(m)
WordAt(m, pos) == Value(SubSeq(m, pos, pos + WORD - 1))
Read(c, n, v) == [c EXCEPT !.pos = @ + n, !.vals = Append(@, v)]
Fail(c) == [c EXCEPT !.ok = FALSE]
CString(bytes) == SubSeq(bytes, 1, Min({i \in DOMAIN bytes : bytes[i] = 0}) - 1)

Coded(c, m, code) == Room(c, m, 1) /\ m[c.pos] = code
ReadInt(c, m, code) ==
    IF Coded(c, m, code) /\ Room(c, m, 1 + WORD) THEN Read(c, 1 + WORD, <<WordAt(m, c.pos + 1)>>) ELSE Fail(c)
ReadLong(c, m, code) ==
    IF Coded(c, m, code) /\ Room(c, m, 1 + 2 * WORD)
    THEN Read(c, 1 + 2 * WORD, <<WordAt(m, c.pos + 1), WordAt(m, c.pos + 1 + WORD)>>)
    ELSE Fail(c)
ReadSized(c, m, code) ==
    IF ~(Coded(c, m, code) /\ Room(c, m, 1 + WORD)) THEN Fail(c)
    ELSE LET n == WordAt(m, c.pos + 1)
         IN IF Room(c, m, 1 + WORD + n)
            THEN Read(c, 1 + WORD + n, SubSeq(m, c.pos + 1 + WORD, c.pos + WORD + n))
            ELSE Fail(c)

(* generate_arg_deserializer: an out int or long takes nothing, an out     *)
(* string or blob the size of the caller's buffer.                         *)
arg_deserializer(f, m) ==
    LET One(c, p) ==
            IF ~c.ok THEN c
            ELSE IF p.mod = "out"
            THEN IF Sized(p.type) THEN ReadInt(c, m, OutCode(p.type)) ELSE Read(c, 0, << >>)
            ELSE CASE p.type = "int" -> ReadInt(c, m, InCode("int"))
                   [] p.type = "long" -> ReadLong(c, m, InCode("long"))
                   [] Sized(p.type) -> ReadSized(c, m, InCode(p.type))
    IN FoldLeft(One, Start, f.params)

(* A handler sees a string up to its NUL.                                  *)
AsSeen(f, vals) ==
    [i \in DOMAIN vals |-> IF f.params[i].type = "string" /\ f.params[i].mod # "out"
                           THEN CString(vals[i]) ELSE vals[i]]
-----------------------------------------------------------------------------
(* generate_result_serializer writes into resbuf at the position reached.  *)

Put(c, skip, bytes) ==
    IF ~c.ok \/ c.pos + skip - 1 > BufSize THEN [c EXCEPT !.ok = FALSE]
    ELSE [c EXCEPT !.pos = @ + skip,
                   !.buf = [i \in DOMAIN @ |-> IF i \in c.pos .. c.pos + Len(bytes) - 1
                                               THEN bytes[i - c.pos + 1] ELSE @[i]]]

(* Faulty: an out long is stored like a long result, without its high word. *)
put_low(c, type, v) ==
    LET bytes == <<OutCode(type)>>
                 \o CASE type \in {"int", "long"} -> Word(v[1])
                      [] type = "string" -> Word(Len(v) + 1) \o v \o <<0>>
                      [] type = "blob" -> Word(Len(v)) \o v
    IN Put(c, IF type = "long" THEN 1 + 2 * WORD ELSE Len(bytes), bytes)

(* One out argument. *)
PutOut(c, type, v) ==
    LET bytes == <<OutCode(type)>>
                 \o CASE type = "int" -> Word(v[1])
                      [] type = "long" -> Long(v)
                      [] type = "string" -> Word(Len(v) + 1) \o v \o <<0>>
                      [] type = "blob" -> Word(Len(v)) \o v
    IN Put(c, Len(bytes), bytes)

(* Faulty: the result follows the out arguments. *)
result_last(f, g, buf) ==
    LET c0 == [pos |-> 1, buf |-> buf, ok |-> TRUE]
        c1 == FoldLeftDomain(LAMBDA c, i : IF f.params[i].mod = "out" THEN PutOut(c, f.params[i].type, g.outs[i]) ELSE c,
                             c0, f.params)
    IN CASE f.ret = "void" -> c1
         [] f.ret = "int" -> Put(c1, 1 + WORD, <<OutCode("int")>> \o Word(g.ret[1]))
         [] f.ret = "long" -> Put(c1, 1 + 2 * WORD, <<OutCode("long")>> \o Word(g.ret[1]))

(* The low word of a long result is stored, and its high word skipped.     *)
result_serializer(f, g, buf) ==
    LET c0 == [pos |-> 1, buf |-> buf, ok |-> TRUE]
        c1 == CASE f.ret = "void" -> c0
                [] f.ret = "int" -> Put(c0, 1 + WORD, <<OutCode("int")>> \o Word(g.ret[1]))
                [] f.ret = "long" -> Put(c0, 1 + 2 * WORD, <<OutCode("long")>> \o Word(g.ret[1]))
    IN FoldLeftDomain(LAMBDA c, i : IF f.params[i].mod = "out" THEN PutOut(c, f.params[i].type, g.outs[i]) ELSE c,
                      c1, f.params)

(* generate_client_marshaller_resultdeserializer: the size of the buffer   *)
(* for the reply, and what is unpacked from it.                            *)
rcvbuf_size(f, a) ==
    (CASE f.ret = "void" -> 0 [] f.ret = "int" -> 1 + WORD [] f.ret = "long" -> 1 + 2 * WORD)
    + FoldLeftDomain(LAMBDA n, i :
                        n + IF f.params[i].mod # "out" THEN 0
                            ELSE CASE f.params[i].type = "int" -> 1 + WORD
                                   [] f.params[i].type = "long" -> 1 + 2 * WORD
                                   [] Sized(f.params[i].type) -> 1 + WORD + a[i][1],
                     0, f.params)

resultdeserializer(f, a, m) ==
    LET Result == CASE f.ret = "void" -> Read(Start, 0, << >>)
                    [] f.ret = "int" -> ReadInt(Start, m, OutCode("int"))
                    [] f.ret = "long" -> ReadLong(Start, m, OutCode("long"))
        One(c, i) ==
            IF ~c.ok THEN c
            ELSE IF f.params[i].mod # "out" THEN Read(c, 0, << >>)
            ELSE CASE f.params[i].type = "int" -> ReadInt(c, m, OutCode("int"))
                   [] f.params[i].type = "long" -> ReadLong(c, m, OutCode("long"))
                   [] Sized(f.params[i].type) ->
                        LET d == ReadSized(c, m, OutCode(f.params[i].type))
                        IN IF d.ok /\ Len(Last(d.vals)) > a[i][1] THEN Fail(c) ELSE d
    IN FoldLeftDomain(One, Result, f.params)
-----------------------------------------------------------------------------
Init ==
    /\ source = << >> /\ fns = << >> /\ phase = "source"
    /\ fn = 0 /\ args = << >> /\ seen = << >> /\ gave = None /\ got = None
    /\ msg = << >> /\ snd_buf = [i \in 1 .. BufSize |-> Junk] /\ calls = 0
    /\ io = Idle

(* main of rpcgen: reads the whole file and generates client and server.   *)
generate(s) ==
    /\ phase = "source"
    /\ source' = s
    /\ LET r == read_statements(s, 1, << >>)
       IN IF r.ok
          THEN /\ fns' = r.fns
               /\ phase' = IF \A i \in DOMAIN r.fns : Generates(r.fns[i]) THEN "ready" ELSE "refused"
          ELSE fns' = << >> /\ phase' = "aborted"
    /\ UNCHANGED <<fn, args, seen, gave, msg, snd_buf, got, calls, io>>

(* One word of a declaration is left out or another one put in its place.  *)
Misspelt(s) ==
    {RemoveAt(s, i) : i \in DOMAIN s} \cup {ReplaceAt(s, i, w) : i \in DOMAIN s, w \in Mistakes}
    \cup {InsertAt(s, i, w) : i \in DOMAIN s, w \in Mistakes}

ArgValues(p) ==
    IF p.mod = "out" THEN IF Sized(p.type) THEN {<<n>> : n \in Rooms} ELSE {<< >>}
    ELSE CASE p.type = "int" -> {<<n>> : n \in Ints}
           [] p.type = "long" -> Ints \X Highs
           [] p.type = "string" -> Strings
           [] p.type = "blob" -> Blobs

(* The client's stub, up to msgsend.                                       *)
call(i) ==
    /\ phase \in {"ready", "returned"} /\ calls < MaxCalls
    /\ fn' = i /\ calls' = calls + 1
    /\ \E a \in [DOMAIN fns[i].params -> UNION {ArgValues(fns[i].params[k]) : k \in DOMAIN fns[i].params}] :
        /\ \A k \in DOMAIN a : a[k] \in ArgValues(fns[i].params[k])
        /\ args' = a
        /\ msg' = argserializer(fns[i], a)
    /\ phase' = "request"
    /\ seen' = << >> /\ gave' = None /\ got' = None /\ io' = Idle
    /\ UNCHANGED <<source, fns, snd_buf>>

(* rpc_dispatch receives the request and unpacks it.                       *)
dispatch ==
    /\ phase = "request"
    /\ LET c == arg_deserializer(fns[fn], msg)
       IN IF Len(msg) <= BufSize /\ c.ok
          THEN seen' = AsSeen(fns[fn], c.vals) /\ phase' = "handler"
          ELSE phase' = "down" /\ UNCHANGED seen
    /\ UNCHANGED <<source, fns, fn, args, gave, msg, snd_buf, got, calls, io>>

(* The end of a marshaller, and the reply of rpc_dispatch.                 *)
reply(g) ==
    LET f == fns[fn]
        c == result_serializer(f, g, snd_buf)
    IN /\ gave' = g
       /\ IF ~HasResult(f) /\ f.mod = "oneway"
          THEN phase' = "returned" /\ UNCHANGED <<msg, snd_buf>>
          ELSE /\ snd_buf' = c.buf
               /\ IF c.ok THEN phase' = "reply" /\ msg' = SubSeq(c.buf, 1, c.pos - 1)
                  ELSE phase' = "down" /\ UNCHANGED msg
       /\ UNCHANGED <<source, fns, fn, args, seen, got, calls>>

(* What a handler may leave in an out argument of the given size.          *)
OutValues(p, room) ==
    IF p.mod # "out" THEN {<< >>}
    ELSE CASE p.type = "int" -> {<<n>> : n \in Ints}
           [] p.type = "long" -> Ints \X Highs
           [] p.type = "string" -> {s \in Strings : Len(s) < room[1]}
           [] p.type = "blob" -> {b \in Blobs : Len(b) <= room[1]}

Driver == {"blkimpl_read", "blkimpl_read_sector", "blkimpl_sector_count", "blkimpl_total_size"}

handler ==
    /\ phase = "handler" /\ fns[fn].name \notin Driver
    /\ LET f == fns[fn]
       IN \E r \in CASE f.ret = "void" -> {<< >>} [] f.ret = "int" -> {<<n>> : n \in Ints} [] f.ret = "long" -> Ints \X Highs :
          \E o \in [DOMAIN f.params -> UNION {OutValues(f.params[k], seen[k]) : k \in DOMAIN f.params}] :
            /\ \A k \in DOMAIN o : o[k] \in OutValues(f.params[k], seen[k])
            /\ reply([ret |-> r, outs |-> o])
    /\ UNCHANGED io

(* The handlers of the block driver.                                       *)
handle_blkimpl_read ==
    /\ phase = "handler" /\ fns[fn].name = "blkimpl_read"
    /\ perform_read(seen[1][1], Signed(seen[2][1]))
    /\ phase' = "driver"
    /\ UNCHANGED <<source, fns, fn, args, seen, gave, msg, snd_buf, got, calls>>
handle_blkimpl_read_sector ==
    /\ phase = "handler" /\ fns[fn].name = "blkimpl_read_sector"
    /\ read_sector(seen[1][1], seen[2][1])
    /\ phase' = "driver"
    /\ UNCHANGED <<source, fns, fn, args, seen, gave, msg, snd_buf, got, calls>>
handle_blkimpl_sector_count ==
    /\ phase = "handler" /\ fns[fn].name = "blkimpl_sector_count"
    /\ reply([ret |-> <<maxlba28>>, outs |-> << >>])
    /\ UNCHANGED io
handle_blkimpl_total_size ==
    /\ phase = "handler" /\ fns[fn].name = "blkimpl_total_size"
    /\ reply([ret |-> <<Len(Device) % W, Len(Device) \div W>>, outs |-> << >>])
    /\ UNCHANGED io
ata == phase = "driver" /\ (read_part \/ read_whole) /\ UNCHANGED rpcvars
driver_done ==
    /\ phase = "driver" /\ io.stage = "finished"
    /\ reply([ret |-> <<io.ret % W>>, outs |-> <<io.buf, << >>>>])
    /\ UNCHANGED io

(* The rest of the client's stub.  A reply that does not fit in rcvbuf     *)
(* makes msgrecv fail.                                                     *)
returns ==
    /\ phase = "reply"
    /\ LET c == resultdeserializer(fns[fn], args, msg)
       IN IF fns[fn].mod = "oneway"
          THEN phase' = "unread" /\ UNCHANGED got
          ELSE IF Len(msg) > rcvbuf_size(fns[fn], args) \/ ~c.ok
          THEN phase' = "lost" /\ UNCHANGED got
          ELSE phase' = "returned" /\ got' = [ret |-> Head(c.vals), outs |-> Tail(c.vals)]
    /\ UNCHANGED <<source, fns, fn, args, seen, gave, msg, snd_buf, calls, io>>

Next ==
    \/ \E s \in Files : generate(s)
    \/ \E d \in Declarations : \E s \in Misspelt(d) : generate(s)
    \/ \E i \in DOMAIN fns : call(i)
    \/ dispatch \/ handler \/ returns
    \/ handle_blkimpl_read \/ handle_blkimpl_read_sector
    \/ handle_blkimpl_sector_count \/ handle_blkimpl_total_size
    \/ ata \/ driver_done

Spec == Init /\ [][Next]_vars
-----------------------------------------------------------------------------
(* rpcgen and Grammar.txt disagree on words and on nothing else: it        *)
(* accepts a source exactly when the grammar has it once void is read as   *)
(* one of the type names and any other word as an identifier, a trailing   *)
(* comma included, and it reads the parameters listed, in their order.     *)
(* Where none of these words occurs it accepts exactly the grammar         *)
(* (read_statements of rpcgen.c).                                          *)
GeneratorFollowsGrammar ==
    phase \in {"ready", "refused", "aborted"} /\ source \notin Files =>
        LET words == InGrammarWords(source)
            grammatical == {o \in DOMAIN words : GrammarFunction(words, o)}
            typeOf(k) == IF fns[1].params[k].type = "void" THEN "int" ELSE fns[1].params[k].type
        IN /\ (phase = "aborted") = (source # << >> /\ grammatical = {})
           /\ phase # "aborted" =>
                \A o \in grammatical :
                    /\ Len(fns) = 1
                    /\ [k \in DOMAIN fns[1].params |-> typeOf(k)] = GrammarParamTypes(words, o)

(* A call is transparent: the handler sees the arguments the caller        *)
(* passed, and the caller gets the result and the out arguments the        *)
(* handler left, whatever was in the server's buffer before.  Only the     *)
(* high word of a long result is excepted (gen_server.c:55).               *)
CallTransparent ==
    /\ phase \in {"handler", "driver", "reply", "returned"} => seen = args
    /\ phase = "returned" /\ HasResult(fns[fn]) =>
        /\ got.outs = [i \in DOMAIN gave.outs |->
                        IF fns[fn].params[i].type = "string" /\ fns[fn].params[i].mod = "out"
                        THEN gave.outs[i] \o <<0>> ELSE gave.outs[i]]
        /\ IF fns[fn].ret = "long" THEN got.ret[1] = gave.ret[1] ELSE got.ret = gave.ret

(* A server goes down only because a request or a reply is larger than its *)
(* buffer: no assertion on type codes or sizes fails on either side, and   *)
(* the client's buffer has room for every reply.  A one-way function whose *)
(* reply nobody receives has an out argument.                              *)
CallsFailOnlyBySize ==
    /\ phase = "down" =>
        Len(msg) > BufSize \/ (gave # None /\ rcvbuf_size(fns[fn], args) > BufSize)
    /\ phase # "lost"
    /\ phase = "unread" => Out(fns[fn]) # {}

(* A caller of blkimpl_read gets the bytes of the device at its offset, up *)
(* to the end of the device or to the sector the drive gave up at; the     *)
(* exception is the rest of a transfer that stopped in the middle, which   *)
(* is counted without having been read (blockdrv.c:318).                   *)
ReadsDevice ==
    phase = "returned" /\ fns[fn].name = "blkimpl_read" /\ got.ret # <<W - 1>> =>
        LET data == got.outs[1]
            off == Signed(args[2][1])
            room == args[1][1]
        IN /\ got.ret = <<Len(data)>> /\ Len(data) <= room
           /\ \A i \in DOMAIN data \ io.unread : off + i <= Len(Device) /\ data[i] = Device[off + i]
           /\ data # << >> /\ off + Len(data) < Len(Device) /\ Len(data) < room
                => (off + Len(data)) % SECTOR_SIZE = 0
=============================================================================
