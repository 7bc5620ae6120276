----------------------------- MODULE TlsStream -----------------------------
(***************************************************************************)
(* One TLS entry of the Windows build (Schannel, vm_native_m3_helpers.cpp): *)
(* the handshake, the reads that take records out of the bytes received,    *)
(* and the writes, with the library loop that sends a whole string.  All    *)
(* run under the ioMutex of the entry, one call at a time; what arrives and *)
(* when is up to the peer and the network.                                  *)
(*                                                                         *)
(* What travels is cut into pieces; the last piece of a record lets it be   *)
(* decrypted.  The numbers 1, 2, ... stand for the bytes of the peer's      *)
(* text: a record carries the bytes after from up to to.  Bounds: MaxBytes  *)
(* bytes of text each way, MaxRecords records and MaxPieces pieces of one.  *)
(***************************************************************************)
EXTENDS Naturals, Sequences

CONSTANTS MaxBytes, MaxRecords, MaxPieces, Maximum, cbMaximumMessage   \* the last three above 0

VARIABLES said,        \* what the peer has said last
          network,     \* the pieces on their way to us
          sent,        \* how many bytes of its text the peer has sent
          records,     \* how many records it has sent
          stage, input, encrypted, decrypted, delivered, result,
          total,       \* how many bytes the program has asked to send
          written,     \* how many of them writes have answered for
          wrote,       \* the bytes of ours the peer can decrypt
          torn         \* a write broke off inside a record

streamVars == <<said, network, sent, records, stage, input, encrypted, decrypted, delivered,
                result, total, written, wrote, torn>>
peerVars == <<said, network, sent, records>>
writeVars == <<total, written, wrote, torn>>

Kinds == {"token", "finished", "data", "ticket", "goodbye"}
Bytes(from, to) == [i \in 1 .. to - from |-> from + i]
Pieces == [kind : Kinds, last : BOOLEAN, from : Nat, to : Nat]
Record(kind, pieces, from, to) ==
  [i \in 1 .. pieces |-> [kind |-> kind, last |-> i = pieces, from |-> from,
                          to |-> IF i = pieces THEN to ELSE from]]

Init == /\ said = "token" /\ network = <<>> /\ sent = 0 /\ records = 0
        /\ stage = "hello" /\ input = <<>> /\ encrypted = <<>> /\ decrypted = <<>>
        /\ delivered = <<>> /\ result = "none"
        /\ total = 0 /\ written = 0 /\ wrote = <<>> /\ torn = FALSE

-----------------------------------------------------------------------------
(* The peer *)

(* The tokens of its handshake, then text, session tickets and at the end   *)
(* its goodbye; it may also go without one.                                 *)
Follows(kind) ==
  CASE said = "token" -> kind \in {"token", "finished"}
    [] said \in {"finished", "data", "ticket"} -> kind \in {"data", "ticket", "goodbye"}
    [] OTHER -> FALSE

PeerSends ==
  /\ records < MaxRecords /\ records' = records + 1
  /\ \E kind \in Kinds, pieces \in 1 .. MaxPieces, to \in sent .. MaxBytes :
       /\ Follows(kind) /\ (kind # "data" => to = sent)
       /\ network' = network \o Record(kind, pieces, sent, to)
       /\ said' = kind /\ sent' = to
  /\ UNCHANGED <<stage, input, encrypted, decrypted, delivered, result, writeVars>>

PeerCloses ==
  /\ said # "closed" /\ said' = "closed"
  /\ UNCHANGED <<network, sent, records, stage, input, encrypted, decrypted, delivered, result,
                 writeVars>>

(* recv gives some of what has arrived.                                     *)
Receive(buffer, buffer2) ==
  \E n \in 1 .. Len(network) :
    /\ buffer2 = buffer \o SubSeq(network, 1, n)
    /\ network' = SubSeq(network, n + 1, Len(network))

-----------------------------------------------------------------------------
(* The handshake: initializeTlsClient *)

(* Where the first record of a buffer ends, 0 while it is incomplete.       *)
Complete(buffer) == {i \in 1 .. Len(buffer) : buffer[i].last}
EndOfRecord(buffer) ==
  IF Complete(buffer) = {} THEN 0
  ELSE CHOOSE i \in Complete(buffer) : \A j \in Complete(buffer) : i <= j

(* Mutant: what came behind the record is thrown away.                      *)
NoExtra(buffer) == <<>>

(* What came behind the first record.                                       *)
Extra(buffer) == SubSeq(buffer, EndOfRecord(buffer) + 1, Len(buffer))

ReceiveToken ==
  /\ stage = "hello"
  /\ Receive(input, input') /\ stage' = "step"
  /\ UNCHANGED <<said, sent, records, encrypted, decrypted, delivered, result, writeVars>>

(* InitializeSecurityContext takes one token; what came behind it is the    *)
(* next token, or once the handshake is complete the first of the stream.   *)
TakeToken ==
  LET end == EndOfRecord(input)
      extra == Extra(input)
  IN /\ stage = "step"
     /\ \/ end = 0 /\ stage' = "hello" /\ UNCHANGED <<input, encrypted>>
        \/ /\ end # 0 /\ input[end].kind = "token"
           /\ input' = extra /\ stage' = (IF extra = <<>> THEN "hello" ELSE "step")
           /\ UNCHANGED encrypted
        \/ /\ end # 0 /\ input[end].kind = "finished"
           /\ encrypted' = extra /\ input' = <<>> /\ stage' = "idle"
     /\ UNCHANGED <<peerVars, decrypted, delivered, result, writeVars>>

(* A token that cannot be sent, a refused step, the end of the connection:  *)
(* the entry is never used.                                                 *)
HandshakeFails ==
  /\ stage \in {"hello", "step"} /\ stage' = "failed"
  /\ UNCHANGED <<peerVars, input, encrypted, decrypted, delivered, result, writeVars>>

-----------------------------------------------------------------------------
(* tlsRead *)

Ends(r) == stage' = "idle" /\ result' = r

(* The call answers with at most the maximum of the decrypted bytes.        *)
Gives(text) ==
  LET count == IF Len(text) <= Maximum THEN Len(text) ELSE Maximum
  IN /\ delivered' = delivered \o SubSeq(text, 1, count)
     /\ decrypted' = SubSeq(text, count + 1, Len(text))
     /\ Ends("data")

(* Text left over from the last record is given before anything is read.    *)
Read ==
  /\ stage = "idle"
  /\ IF decrypted # <<>> THEN Gives(decrypted)
     ELSE stage' = "reading" /\ UNCHANGED <<decrypted, delivered, result>>
  /\ UNCHANGED <<peerVars, input, encrypted, writeVars>>

(* With nothing to decrypt, or an incomplete record, more is received.  The *)
(* end of the connection is an answer only between records.                 *)
ReadMore ==
  /\ stage = "reading" /\ EndOfRecord(encrypted) = 0
  /\ \/ Receive(encrypted, encrypted') /\ UNCHANGED <<stage, result>>
     \/ /\ network = <<>> /\ said = "closed"
        /\ Ends(IF encrypted = <<>> THEN "end" ELSE "error")
        /\ UNCHANGED <<network, encrypted>>
     \/ Ends("error") /\ UNCHANGED <<network, encrypted>>
  /\ UNCHANGED <<said, sent, records, input, decrypted, delivered, writeVars>>

(* DecryptMessage takes the first record, the rest stays for later.  An     *)
(* empty record is passed over, a session ticket is refused, the goodbye is *)
(* the end.  A record that cannot be decrypted stays where it is.           *)
Decrypt ==
  LET end == EndOfRecord(encrypted)
      record == encrypted[end]
  IN /\ stage = "reading" /\ end # 0
     /\ \/ /\ record.kind = "data" /\ encrypted' = Extra(encrypted)
           /\ IF record.to > record.from THEN Gives(Bytes(record.from, record.to))
              ELSE UNCHANGED <<stage, decrypted, delivered, result>>
        \/ /\ record.kind = "ticket" /\ encrypted' = Extra(encrypted)
           /\ Ends("error") /\ UNCHANGED <<decrypted, delivered>>
        \/ /\ record.kind = "goodbye" /\ encrypted' = <<>>
           /\ Ends("end") /\ UNCHANGED <<decrypted, delivered>>
        \/ Ends("error") /\ UNCHANGED <<encrypted, decrypted, delivered>>
     /\ UNCHANGED <<peerVars, input, writeVars>>

-----------------------------------------------------------------------------
(* tlsWrite and the loop that sends a string *)

AskSend ==
  /\ stage = "idle" /\ written = total
  /\ total' \in written + 1 .. MaxBytes
  /\ UNCHANGED <<peerVars, stage, input, encrypted, decrypted, delivered, result, written, wrote,
                 torn>>

(* One call encrypts a record of at most cbMaximumMessage bytes from the    *)
(* offset on and sends it whole, or breaks off and the rest of the string   *)
(* is abandoned; behind a torn record the peer can decrypt nothing.         *)
Write ==
  LET rest == total - written
      chunk == IF rest <= cbMaximumMessage THEN rest ELSE cbMaximumMessage
  IN /\ stage = "idle" /\ written < total
     /\ \/ /\ written' = written + chunk
           /\ wrote' = (IF torn THEN wrote ELSE wrote \o Bytes(written, written + chunk))
           /\ UNCHANGED <<total, torn>>
        \/ total' = written /\ torn' = TRUE /\ UNCHANGED <<written, wrote>>
     /\ UNCHANGED <<peerVars, stage, input, encrypted, decrypted, delivered, result>>

Next == \/ PeerSends \/ PeerCloses
        \/ ReceiveToken \/ TakeToken \/ HandshakeFails
        \/ Read \/ ReadMore \/ Decrypt
        \/ AskSend \/ Write

Spec == Init /\ [][Next]_streamVars

-----------------------------------------------------------------------------

Stages == {"hello", "step", "failed", "idle", "reading"}

(* The types of all variables.                                              *)
TypeOK ==
  /\ said \in Kinds \cup {"closed"} /\ sent \in 0 .. MaxBytes /\ records \in 0 .. MaxRecords
  /\ network \in Seq(Pieces) /\ input \in Seq(Pieces) /\ encrypted \in Seq(Pieces)
  /\ stage \in Stages /\ result \in {"none", "data", "end", "error"}
  /\ decrypted \in Seq(1 .. sent) /\ delivered \in Seq(1 .. sent)
  /\ total \in 0 .. MaxBytes /\ written \in 0 .. total
  /\ wrote \in Seq(1 .. MaxBytes) /\ torn \in BOOLEAN

(* What has arrived and what will, in order.                                *)
Coming == input \o encrypted \o network
Consecutive(pieces) == \A i \in 1 .. Len(pieces) - 1 : pieces[i + 1].from = pieces[i].to

(* Of the peer's text nothing is lost, repeated or swapped: what reads have *)
(* given, what waits for the next read and what is still to be decrypted    *)
(* make up the text, however it was cut and whatever came with the last     *)
(* token of the handshake.                                                  *)
NothingLost ==
  LET text == delivered \o decrypted
  IN /\ text = Bytes(0, Len(text))
     /\ Len(text) = (IF Coming = <<>> THEN sent ELSE Coming[1].from)
     /\ Consecutive(Coming)

(* Reads tell the end only after the whole text was given.                  *)
EndIsTheEnd == result = "end" => Len(delivered) = sent

(* The peer gets the bytes that writes have answered for, up to the first   *)
(* write that broke off.                                                    *)
SentWhole == IF torn THEN wrote = Bytes(0, Len(wrote)) /\ Len(wrote) <= written
             ELSE wrote = Bytes(0, written)
=============================================================================
