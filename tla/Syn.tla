--------------------------------- MODULE Syn ---------------------------------
(***************************************************************************)
(* parse_syn (solvetls/tcpip/syn.py): the IP and TCP headers of a saved    *)
(* SYN.  A header is the widths of its fields in order; a read that finds  *)
(* less than it asks for makes the whole packet unreadable.                *)
(***************************************************************************)
EXTENDS Wire, FiniteSetsExt

\* The fields of width w[1], w[2], ... at the beginning of d.
Fields(d, w) ==
  [i \in DOMAIN w |-> Read(Drop(d, SumFunction(SubSeq(w, 1, i - 1))), w[i])]

Ipv4Widths == <<1, 1, 2, 2, 2, 1, 1, 2, 4, 4>>
Ipv6Widths == <<4, 2, 1, 1, 16, 16>>
TcpWidths == <<2, 2, 4, 4, 1, 1, 2, 2, 2>>
Ipv4HeaderSize == 20
IpprotoTcp == 6

Options_None(d) == 0

\* Length of the IPv4 options, from the header length in words.
Options(d) == Max({(d[1] % 16) * 4 - Ipv4HeaderSize, 0})

\* What precedes the TCP header.
Ipv4(d) ==
  LET f == Fields(d, Ipv4Widths)
  IN [size |-> Ipv4HeaderSize + Options(d), id |-> f[4], ttl |-> f[6],
      src |-> f[9], dst |-> f[10]]

Ipv6(d) ==
  LET f == Fields(d, Ipv6Widths)
  IN [size |-> SumFunction(Ipv6Widths), id |-> << >>, ttl |-> f[4], src |-> f[5],
      dst |-> f[6], next |-> f[3]]

Tcp(d) ==
  LET f == Fields(d, TcpWidths)
  IN [src_port |-> f[1], dst_port |-> f[2], seq |-> f[3], ack |-> f[4],
      window |-> f[7], checksum |-> f[8]]

\* None if a read fails, of another IP version, or behind extension headers.
None == << >>

ParseSyn(d) ==
  IF d = << >> \/ d[1] \div 16 \notin {4, 6} THEN None
  ELSE LET ip == IF d[1] \div 16 = 4 THEN Ipv4(d) ELSE Ipv6(d)
       IN IF Len(d) < ip.size + SumFunction(TcpWidths) THEN None
          ELSE IF d[1] \div 16 = 6 /\ ip.next # <<IpprotoTcp>> THEN None
          ELSE <<ip, Tcp(Drop(d, ip.size))>>
=============================================================================
