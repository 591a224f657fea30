------------------------------ MODULE Packets ------------------------------
(***************************************************************************)
(* What gateway.c does to the contents of a packet on both of its ways:    *)
(* putting a frame together from fragments, the checks, the rewriting of   *)
(* address and port, and the checksums.  How the table of ports comes      *)
(* about is PortMap; here it stays as it is, with rows for one server.     *)
(*                                                                         *)
(* A packet is a sequence of bytes, with fields of fewer bytes than in IP: *)
(*   1 length, 2 protocol, 3-4 header checksum, 5 source, 6 destination,   *)
(*   7 source port, 8 destination port, 9-10 checksum, 11 ... data         *)
(* ICMP packets are echoes, with the identifier where the others have the  *)
(* port: other types, which both ways drop, are not sent here; and neither *)
(* are fragments of an IP packet, which have no ports of their own.        *)
(***************************************************************************)
EXTENDS Checksum

CONSTANTS
  NRF9160_MTU,
  EthHdr,               \* bytes before the IP packet in a frame, 14
  server, server_port, my_ip_addr,
  pmap,                 \* rows of the table, the same for each protocol
  LtePorts,             \* what the generators give to rows
  Payloads,             \* the data of the packets sent
  FragSizes,            \* sizes of the driver's buffers
  Hurt                  \* positions at which a byte may be damaged

IPPROTO_ICMP == 1
IPPROTO_TCP  == 2
IPPROTO_UDP  == 3
Protocols    == {IPPROTO_ICMP, IPPROTO_TCP, IPPROTO_UDP}

IpHdr == 6

(* The driver's buffers hold the headers that the checks read, and no more *)
(* than lte_tx_ip_pkt (Zephyr's have 128 bytes).                           *)
ASSUME PacketAssumption ==
  /\ EthHdr \in Nat /\ FragSizes \subseteq Nat
  /\ \A size \in FragSizes : EthHdr + IpHdr <= size /\ size <= NRF9160_MTU
  /\ NRF9160_MTU \in Nat /\ EthHdr + IpHdr <= NRF9160_MTU /\ NRF9160_MTU < B
  /\ \A data \in Payloads : data \in Seq(Byte) /\ 10 + Len(data) < B
  /\ {server, server_port, my_ip_addr} \subseteq Byte
  /\ my_ip_addr # 0

(* Of the table PortMap shows that no two rows share a port or a client's  *)
(* port.                                                                   *)
ASSUME TableAssumption ==
  /\ LtePorts \subseteq Byte
  /\ pmap \subseteq [client : Byte, eth_port : Byte, lte_port : LtePorts]
  /\ \A row, other \in pmap :
       row # other => /\ row.lte_port # other.lte_port
                      /\ row.client # other.client \/ row.eth_port # other.eth_port

VARIABLES
  lte_tx_ip_pkt,         \* eth_recv_cb: the packet put together
  lte_rx_ip_raw_packet,  \* eth_tx_thread: the packet received
  way,                   \* of the last packet: "up" to LTE, or "down"
  meant,                 \* the packet as it was sent to the gateway
  damaged,               \* a byte of it has changed or is missing
  sent                   \* the packet as the gateway sent it, or none

vars == <<lte_tx_ip_pkt, lte_rx_ip_raw_packet, way, meant, damaged, sent>>

Header(packet) == SubSeq(packet, 1, IpHdr)
Data(packet)   == SubSeq(packet, IpHdr + 1, Len(packet))
Pseudo(packet) == <<packet[5], packet[6], packet[2], Len(packet) - IpHdr>>

(* The rows that search_pmap_by_client_info and ..._by_server_info find.   *)
RowsByClient(packet) ==
  {row \in pmap : row.client = packet[5] /\ row.eth_port = packet[7]}

RowsByServer(packet) ==
  {row \in pmap : packet[5] = server /\ row.lte_port = packet[8]}

(* The port of the row, or that of a new one, which no other has.          *)
PortsFor(packet) ==
  IF RowsByClient(packet) # {}
  THEN {row.lte_port : row \in RowsByClient(packet)}
  ELSE LtePorts \ {row.lte_port : row \in pmap}

-----------------------------------------------------------------------------
(* Packets as hosts send and check them.                                   *)

HighFirst(bytes, pos, value) ==
  [bytes EXCEPT ![pos] = value \div B, ![pos + 1] = value % B]

Summed(proto, packet) ==
  IF proto = IPPROTO_ICMP THEN Data(packet) ELSE Pseudo(packet) \o Data(packet)

(* A packet with the right checksums; that of UDP may be left out.  One    *)
(* that comes out as 0 stays 0, in the code too, where RFC 768 wants ones. *)
Packet(proto, from, to, port1, port2, data, withSum) ==
  LET bare == <<10 + Len(data), proto, 0, 0, from, to, port1, port2, 0, 0>> \o data
      sum  == IF withSum THEN RfcSum(Summed(proto, bare)) ELSE 0
  IN  HighFirst(HighFirst(bare, 9, sum), 3, RfcSum(Header(bare)))

FromClient(row, proto, data, withSum) ==
  Packet(proto, row.client, server, row.eth_port, server_port, data, withSum)

FromServer(row, proto, data, withSum) ==
  Packet(proto, server, my_ip_addr, server_port, row.lte_port, data, withSum)

(* What the other side gets of it, always with a checksum.                 *)
Translated(packet) ==
  LET data == SubSeq(packet, 11, Len(packet))
      row  == CHOOSE r \in IF way = "up" THEN RowsByClient(packet) ELSE RowsByServer(packet) : TRUE
  IN  IF way = "up"
      THEN Packet(packet[2], my_ip_addr, server, row.lte_port, server_port, data, TRUE)
      ELSE Packet(packet[2], server, row.client, server_port, row.eth_port, data, TRUE)

Verifies(packet) ==
  /\ RfcSum(Header(packet)) = 0
  /\ RfcSum(Summed(packet[2], packet)) = 0

(* One byte is damaged, or the last is missing.                            *)
Damage(packet) ==
  {[packet EXCEPT ![pos] = (@ + B \div 2) % B] : pos \in Hurt \cap DOMAIN packet}
  \cup {SubSeq(packet, 1, Len(packet) - 1)}

-----------------------------------------------------------------------------
(* From Ethernet to LTE: eth_recv_cb.                                      *)

Smaller(m, n) == IF m < n THEN m ELSE n

(* The frame as the driver hands it over, in buffers of one size.          *)
Fragments(frame, size) ==
  [k \in 1..((Len(frame) + size - 1) \div size) |->
     SubSeq(frame, (k - 1) * size + 1, Smaller(k * size, Len(frame)))]

FramesOf(packet) ==
  {Fragments([i \in 1..EthHdr |-> 0] \o packet \o padding, size) :
     padding \in {<< >>, <<B - 1, B - 1>>}, size \in FragSizes}

Overwritten(buffer, from, bytes) ==
  [i \in DOMAIN buffer |->
     IF i - from \in DOMAIN bytes THEN bytes[i - from] ELSE buffer[i]]

(* Fragment after fragment is copied behind the dsz bytes that are there,  *)
(* until tsz bytes are; the first without its Ethernet header.             *)
Copied(tsz, dsz, frag, skip, data) ==
  LET rsz  == Smaller(NRF9160_MTU - dsz, Len(frag)) - skip
      size == Smaller(rsz, tsz - dsz)
  IN  [dsz  |-> dsz + size,
       data |-> Overwritten(data, dsz, SubSeq(frag, skip + 1, skip + size))]

\* Mistake on purpose: the Ethernet header counts as data.
Reassembled_HeaderCounted(frags, buffer) ==
  LET tsz == frags[1][EthHdr + 1]
      copy[k \in 0..Len(frags)] ==
        IF k = 0 THEN [dsz |-> 0, data |-> buffer]
        ELSE LET skip == IF k = 1 THEN EthHdr ELSE 0
                 more == Copied(tsz, copy[k - 1].dsz, frags[k], skip, copy[k - 1].data)
             IN  [more EXCEPT !.dsz = Smaller(tsz, @ + skip)]
  IN  copy[Len(frags)].data

Reassembled(frags, buffer) ==
  LET tsz == frags[1][EthHdr + 1]
      copy[k \in 0..Len(frags)] ==
        IF k = 0 THEN [dsz |-> 0, data |-> buffer]
        ELSE Copied(tsz, copy[k - 1].dsz, frags[k], IF k = 1 THEN EthHdr ELSE 0,
                    copy[k - 1].data)
  IN  copy[Len(frags)].data

(* The checks that both ways make before anything else.                    *)
HeaderOK(packet) ==
  /\ packet[2] \in Protocols
  /\ packet[1] > IpHdr
  /\ check_ics(Header(packet)) = 0

(* Both ways end with the checksums: that of the header, and that of the   *)
(* data by the protocol.                                                   *)
Resummed(packet) ==
  LET header == calc_ics(Header(packet), 3)
      bare   == Store16(Data(packet), 3, 0)
      sum    == IF packet[2] = IPPROTO_ICMP
                THEN check_ics(bare)
                ELSE ip_checksum2(Pseudo(packet), bare)
  IN  header \o Store16(bare, 3, sum)

(* eth_recv_cb.  Longer packets leave nothing behind; the others are put   *)
(* together before they are checked, and are rewritten where they are.  A  *)
(* new flow may find the table full.                                       *)
eth_recv_cb(frags) ==
  LET seen   == SubSeq(frags[1], EthHdr + 1, Len(frags[1]))
      whole  == SubSeq(Reassembled(frags, lte_tx_ip_pkt), 1, seen[1])
      Drop   == sent' = << >> /\ lte_tx_ip_pkt' = Reassembled(frags, lte_tx_ip_pkt)
      Send   == /\ \E port \in PortsFor(whole) :
                     sent' = Resummed([whole EXCEPT ![5] = my_ip_addr, ![7] = port])
                /\ lte_tx_ip_pkt' = Overwritten(lte_tx_ip_pkt, 0, sent')
  IN  /\ IF seen[1] > NRF9160_MTU
         THEN sent' = << >> /\ UNCHANGED lte_tx_ip_pkt
         ELSE IF ~HeaderOK(seen) THEN Drop
         ELSE Send \/ (RowsByClient(whole) = {} /\ Drop)
      /\ UNCHANGED lte_rx_ip_raw_packet

-----------------------------------------------------------------------------
(* From LTE to Ethernet: eth_tx_thread, once recv has filled the buffer    *)
(* with what there is of a packet.                                         *)

\* Mistake on purpose: an echo is not checked either.
DataOK_UdpOnly(packet) ==
  packet[2] = IPPROTO_UDP => ip_checksum2(Pseudo(packet), Data(packet)) = 0

(* The checksum of TCP is left to the receiver.                            *)
DataOK(packet) ==
  CASE packet[2] = IPPROTO_UDP  -> ip_checksum2(Pseudo(packet), Data(packet)) = 0
    [] packet[2] = IPPROTO_ICMP -> check_ics(Data(packet)) = 0
    [] OTHER -> TRUE

eth_tx_thread(raw) ==
  LET buffer == Overwritten(lte_rx_ip_raw_packet, 0, raw)
      packet == SubSeq(buffer, 1, buffer[1])
  IN  /\ lte_rx_ip_raw_packet' = buffer
      /\ IF /\ buffer[1] <= NRF9160_MTU
            /\ buffer[6] = my_ip_addr
            /\ HeaderOK(buffer)
            /\ DataOK(packet)
            /\ RowsByServer(packet) # {}
         THEN \E row \in RowsByServer(packet) :
                sent' = Resummed([packet EXCEPT ![6] = row.client, ![8] = row.eth_port])
         ELSE sent' = << >>
      /\ UNCHANGED lte_tx_ip_pkt

-----------------------------------------------------------------------------
Init ==
  /\ lte_tx_ip_pkt = [i \in 1..NRF9160_MTU |-> 0]
  /\ lte_rx_ip_raw_packet = [i \in 1..NRF9160_MTU |-> 0]
  /\ way = "up" /\ meant = << >> /\ damaged = FALSE /\ sent = << >>

(* A packet that comes as it was sent, or damaged on the way.              *)
Arrives(packet, direction, Taken(_)) ==
  /\ way' = direction
  /\ meant' = packet
  /\ \/ damaged' = FALSE /\ Taken(packet)
     \/ damaged' = TRUE /\ \E other \in Damage(packet) : Taken(other)

SumChoices(proto) == IF proto = IPPROTO_UDP THEN BOOLEAN ELSE {TRUE}

FromEthernet ==
  LET Taken(packet) == \E frags \in FramesOf(packet) : eth_recv_cb(frags)
  IN  \E row \in pmap, proto \in Protocols, data \in Payloads :
        \E withSum \in SumChoices(proto) :
          Arrives(FromClient(row, proto, data, withSum), "up", Taken)

FromLte ==
  \E row \in pmap, proto \in Protocols, data \in Payloads :
    \E withSum \in SumChoices(proto) :
      Arrives(FromServer(row, proto, data, withSum), "down", eth_tx_thread)

Next == FromEthernet \/ FromLte

Spec == Init /\ [][Next]_vars

-----------------------------------------------------------------------------
(* Properties.                                                             *)

Buffers == [1..NRF9160_MTU -> Byte]

TypeOK ==
  /\ lte_tx_ip_pkt \in Buffers
  /\ lte_rx_ip_raw_packet \in Buffers
  /\ way \in {"up", "down"}
  /\ meant \in Seq(Byte) /\ sent \in Seq(Byte)
  /\ damaged \in BOOLEAN

(* Both checksum functions compute what the hosts compute from the bytes   *)
(* in network order, whatever is in the buffers and however long it is.    *)
SumsAgree ==
  LET Swapped(sum) == B * (sum % B) + (sum \div B)
  IN  \A length \in 0..NRF9160_MTU :
        LET bytes == SubSeq(lte_tx_ip_pkt, 1, length)
        IN  /\ Swapped(check_ics(bytes)) = RfcSum(bytes)
            /\ \A half \in 0..(length \div 2) :
                 ip_checksum2(SubSeq(bytes, 1, 2 * half),
                              SubSeq(bytes, 2 * half + 1, length))
                   = check_ics(bytes)

NoSum(packet) == packet[2] = IPPROTO_UDP /\ packet[9] = 0 /\ packet[10] = 0

(* A packet that comes undamaged is forwarded with the other address and   *)
(* port and not a byte changed besides, however it is cut into fragments   *)
(* and whatever the last one left in the buffer: unless it is too long, or *)
(* a UDP datagram without a checksum from LTE.                             *)
ForwardedWhole ==
  /\ meant # << >>
  /\ ~damaged
  /\ Len(meant) <= NRF9160_MTU
  /\ ~(way = "down" /\ NoSum(meant))
  => sent = Translated(meant)

(* What is sent has the checksums its receiver expects: also a packet that *)
(* came damaged, so that the receiver cannot tell.                         *)
SentVerifies == sent # << >> => Verifies(sent)

(* Damage never changes to which host a packet goes, unless it hits the    *)
(* destination port of one from LTE and gets through.  Only that of a TCP  *)
(* segment gets through, or of a UDP datagram without a checksum, which is *)
(* checked as if it had one.  From Ethernet the data is not checked.       *)
DamageContained ==
  sent # << >> =>
    /\ way = "up" \/ lte_rx_ip_raw_packet[8] = meant[8]
       => Header(sent) = Header(Translated(meant))
    /\ way = "down" /\ meant[2] # IPPROTO_TCP /\ ~NoSum(meant)
       => sent = Translated(meant)
=============================================================================
