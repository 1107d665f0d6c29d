---------------------------- MODULE MCBrowserPool ----------------------------
(***************************************************************************)
(* Small instances of BrowserPool.                                         *)
(***************************************************************************)
EXTENDS BrowserPool

CONSTANTS w1, w2, shop, proxy

\* One site fetched directly and through a proxy, in a session and without.
FourRequests ==
    [domain : {shop}, proxy : {Direct, proxy}, sticky : BOOLEAN]

=============================================================================
