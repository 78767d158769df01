--------------------------- MODULE MCServerConn -----------------------------
EXTENDS ServerConn

Get    == [head |-> 1, minor |-> 1, hosts |-> 1, cl |-> <<>>, te |-> <<>>, conn |-> "",
           bad |-> 0, body |-> 0, expect |-> "", sink |-> {FALSE}, resp |-> 1,
           file |-> 0, upgrade |-> FALSE]
Post(n)   == [Get EXCEPT !.cl = <<n>>, !.body = n]
Expect(r) == [r EXCEPT !.expect = "100-continue"]
Upload(n) == [Post(n) EXCEPT !.sink = {TRUE}]

MCScripts == {
    <<[Get EXCEPT !.file = 2], [Get EXCEPT !.conn = "close"], Get>>,
    <<Expect(Post(2)), [Get EXCEPT !.resp = 2, !.head = 2]>>,
    <<Expect(Upload(2)), Get, Get, Get, Get>>,
    <<[Get EXCEPT !.upgrade = TRUE], Get>>,
    <<[Post(1) EXCEPT !.cl = <<1, 2>>, !.body = 2], Get>>,
    <<[Post(1) EXCEPT !.te = <<"identity">>], Get>>,
    <<[Get EXCEPT !.te = <<"identity">>], [Get EXCEPT !.te = <<"chunked">>, !.body = 1]>>,
    <<[Get EXCEPT !.te = <<"chunked", "identity">>, !.body = 1], Get>>,
    <<[Upload(1) EXCEPT !.expect = "200-ok"]>>,
    <<[Post(1) EXCEPT !.minor = 0, !.hosts = 0, !.conn = "keep-alive"], Post(3)>>,
    <<[Post(2) EXCEPT !.head = 2]>>,
    <<Get, [Upload(2) EXCEPT !.sink = {TRUE, FALSE}]>>,
    <<Upload(4), [Get EXCEPT !.bad = 400]>> }
=============================================================================
