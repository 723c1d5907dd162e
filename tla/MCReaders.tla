----------------------------- MODULE MCReaders ------------------------------
(* Objects for the readers: repeated and unknown entries, keys and values  *)
(* of the wrong type, and each in any place of a short sequence.           *)
EXTENDS Readers

SeqsUpTo(S, n) == UNION {[1..k -> S] : k \in 0..n}

(* An index is a sequence of positions of `s`, and stands for what is      *)
(* there.                                                                  *)
Family(s, indices) == [f \in indices |-> [i \in DOMAIN f |-> s[f[i]]]]
Long(n) == [i \in 1..n |-> i % 256]

(* Contents that look like lengths.                                        *)
MCChains ==
  Family(<<<<>>, <<0>>, <<0, 0, 0, 0>>, <<0, 0, 0, 1>>, <<0, 0, 0, 1, 0>>, <<0, 0, 0, 0, 0>>>>,
         SeqsUpTo(1..6, 3))

----------------------------------------------------------------------------
Octets(s) == [t |-> "bytes", v |-> s]
Array(s) == [t |-> "array", v |-> s]
Other == [t |-> "other", v |-> 0]
Map(m) == [t |-> "map", v |-> m]
E(k, v) == [k |-> Text(k), v |-> v]

X == Octets(Long(32))
Y == Octets([i \in 1..32 |-> 32 - i])
Kty == <<Integer(1), Integer(2)>>
Alg == <<Integer(3), Integer(-7)>>
Crv == <<Integer(-1), Integer(1)>>
XY == <<Integer(-2), X, Integer(-3), Y>>
Cose(n, items) == <<[t |-> "header", v |-> n]>> \o items
CoseKeys ==
  <<Cose(5, Kty \o Alg \o Crv \o XY),
   Cose(6, XY \o Crv \o Alg \o Kty \o <<Integer(9), Array(<<Integer(1)>>)>>),
   Cose(6, <<Integer(-2), Y>> \o Kty \o Alg \o Crv \o XY),
   Cose(6, Kty \o Alg \o Crv \o XY \o <<Integer(-2), Integer(0)>>),
   Cose(6, <<Text("x"), Integer(1)>> \o Kty \o Alg \o Crv \o XY),
   Cose(6, <<Integer(9), Other>> \o Kty \o Alg \o Crv \o XY),
   Cose(5, Kty \o <<Integer(3), Integer(-8)>> \o Crv \o XY),
   Cose(4, Kty \o Alg \o XY),
   Cose(5, Kty \o Alg \o Crv \o <<Integer(-2), Octets(Long(31)), Integer(-3), Y>>),
   Cose(5, Kty \o Alg \o Crv \o XY) \o <<Integer(0), Integer(0)>>>>
MCAuthDatas ==
  [i \in 1..Len(CoseKeys) |-> [flags |-> 64, id |-> 2, key |-> CoseKeys[i]]]
    \o <<[flags |-> 0, id |-> 0, key |-> CoseKeys[1]],
         [flags |-> 191, id |-> 32, key |-> CoseKeys[1]],
         [flags |-> 255, id |-> 0, key |-> CoseKeys[1]], [flags |-> 65, id |-> 258, key |-> CoseKeys[1]]>>

Certs == E("x5c", Array(<<Octets(<<1>>), Octets(<<2>>)>>))
Receipt1 == E("receipt", Octets(<<3>>))
Stmt(m) == E("attStmt", Map(m))
Fmt == E("fmt", Text("apple-appattest"))
OtherAuth ==
  E("authData", Octets(EncAuthData(64, 1, Cose(5, Kty \o Alg \o Crv \o <<Integer(-2), Y, Integer(-3), X>>))))
Good == Stmt(<<Certs, Receipt1>>)
Obj(before, after) == [before |-> before, after |-> after]
MCObjects ==
  <<Obj(<<Fmt, Good>>, <<>>), Obj(<<>>, <<Good, Fmt>>), Obj(<<Fmt>>, <<>>), Obj(<<Good>>, <<>>),
   Obj(<<OtherAuth, Fmt, Good>>, <<>>), Obj(<<Fmt, Good>>, <<OtherAuth>>),
   Obj(<<Fmt, Good>>, <<E("authData", Text("authData"))>>),
   Obj(<<Fmt, Good>>, <<E("fmt", Integer(1))>>), Obj(<<Fmt, Good>>, <<E("attStmt", Other)>>),
   Obj(<<Fmt, Good, E("extra", Other)>>, <<>>), 
   Obj(<<Fmt, Good, E("extra", Array(<<Integer(1)>>))>>, <<>>),
   Obj(<<[k |-> Integer(1), v |-> Integer(1)], Fmt, Good>>, <<>>),
   Obj(<<Fmt, Stmt(<<Certs, E("x5c", Array(<<Octets(<<4>>)>>)), E("receipt", Integer(1))>>)>>, <<>>),
   Obj(<<Fmt, Stmt(<<E("x5c", Array(<<Integer(1)>>)), Certs>>)>>, <<>>),
   Obj(<<Fmt, Stmt(<<Receipt1>>)>>, <<>>), 
   Obj(<<Fmt, Stmt(<<[k |-> Integer(1), v |-> Integer(1)], Certs>>)>>, <<>>)>>

AssertionEntries ==
  <<E("signature", Octets(<<1>>)), E("signature", Octets(<<2>>)), E("signature", Text("signature")),
   E("authenticatorData", Octets(Long(37))), E("authenticatorData", Octets(Long(36))),
   E("authenticatorData", Integer(0)), E("extra", Other), [k |-> Integer(1), v |-> Integer(1)]>>
MCAssertionMaps == Family(AssertionEntries, SeqsUpTo(DOMAIN AssertionEntries, 4))
=============================================================================
