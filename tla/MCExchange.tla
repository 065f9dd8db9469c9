----------------------------- MODULE MCExchange ------------------------------
EXTENDS Exchange

MCClaims == {0 .. 4, (0 .. 2) \cup (4 .. 6), Block}
OnePrefix == {0 .. 4}

Weak(sc) == [sc EXCEPT !.weak = TRUE]

MCOldLinks ==
  {Plain(1, N), Weak(Plain(1, N)), RotateEtag(1, N), NoMeta(1, N), Flaky(1, N),
   NoRangeRoute(1, N)}

NoEtag(sc) == [sc EXCEPT !.etag = "None"]

\* The same file behind every kind of server, and decoys of the same size.
MCNewLinks ==
  UNION {{Plain(s, N), Weak(Plain(s, N)), RotateEtag(s, N), NoMeta(s, N)} : s \in 1 .. 2}
    \cup {NoEtag(Plain(1, N)), NoRangeRoute(1, N), Liar(1, N), NoLen(1, N), Gzip(1, N),
          Flaky(1, N), Plain(1, N - 1), StatusRoute(Plain(1, N), 404), Signed(Plain(1, N), FALSE),
          Redirect(1, N, <<"http", "https">>), Redirect(1, N, <<"https", "http">>),
          Redirect(1, N, <<"http", "ftp">>),
          Redirect(1, N, <<"http", "http", "http", "http">>)}

NoRanges == {NoRangeRoute(1, N)}
==============================================================================
