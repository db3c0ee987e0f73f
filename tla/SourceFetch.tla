----------------------------- MODULE SourceFetch -----------------------------
(***************************************************************************)
(* fetch_source of app/storage/object_store.py: the source of one attempt  *)
(* is downloaded into a temporary file, redirects followed by hand, every  *)
(* URL put before validate_download_url (app/storage/ssrf_guard.py) first, *)
(* and the content compared with the size and hash the request declares.   *)
(*                                                                         *)
(* What validate_download_url decides from a URL and the settings is       *)
(* whether it is in Allowed; it may reject any URL whose host the DNS does *)
(* not resolve.  httpx resolves the host once more to connect; an answer   *)
(* that changes in between is left out.  The file holds the content the    *)
(* request declares (right) or other bytes (wrong).                        *)
(***************************************************************************)
EXTENDS Naturals

CONSTANTS
    Url,            \* what a request or a redirect may point to
    Allowed,        \* the URLs validate_download_url accepts
    MaxRedirects    \* _MAX_REDIRECTS

VARIABLES
    fetch,          \* where fetch_source is
    url,            \* current_url
    hops,           \* redirects followed
    file,           \* the temporary file: absent, or what has been written to it
    requested       \* URLs an HTTP request was sent to

fetchVars == <<fetch, url, hops, file, requested>>

FetchTypeOK ==
    /\ fetch \in {"closed", "requesting", "served", "open"}
    /\ url \in Url
    /\ hops \in Nat
    /\ file \in {"absent", "empty", "right", "wrong"}
    /\ requested \subseteq Url

FetchInit(u) ==
    /\ fetch = "closed"
    /\ url = u
    /\ hops = 0
    /\ file = "absent"
    /\ requested = {}

\* mkstemp, then _download_to
OpenFetch(u) ==
    /\ fetch = "closed"
    /\ fetch' = "requesting"
    /\ url' = u
    /\ hops' = 0
    /\ file' = "empty"
    /\ UNCHANGED requested

\* the loop has run _MAX_REDIRECTS + 1 times
TooManyRedirects == hops > MaxRedirects

\* Faulty variant: only the URL of the request is validated.
MayRequestRedirected == fetch = "requesting" /\ ~TooManyRedirects /\ (hops = 0 => url \in Allowed)

MayRequest == fetch = "requesting" /\ ~TooManyRedirects /\ url \in Allowed

Request == MayRequest /\ requested' = requested \cup {url}

\* Faulty variant: a loop that does not count.
FollowForever(u) ==
    /\ Request
    /\ url' = u
    /\ UNCHANGED <<fetch, hops, file>>

FollowRedirect(u) ==
    /\ Request
    /\ url' = u
    /\ hops' = hops + 1
    /\ UNCHANGED <<fetch, file>>

\* 2xx, and the whole body within max_bytes
Download(content) ==
    /\ Request
    /\ fetch' = "served"
    /\ file' = content
    /\ UNCHANGED <<url, hops>>

\* Faulty variant: a redirected download is not compared with its hash.
VerifyDirect ==
    /\ fetch = "served"
    /\ hops = 0 => file = "right"
    /\ fetch' = "open"
    /\ UNCHANGED <<url, hops, file, requested>>

\* size == sizeBytes and sha256 as requested
Verify ==
    /\ fetch = "served"
    /\ file = "right"
    /\ fetch' = "open"
    /\ UNCHANGED <<url, hops, file, requested>>

(***************************************************************************)
(* The PipelineFailure codes fetch_source may raise where it is, and       *)
(* whether a request was sent before it does.                              *)
(***************************************************************************)
\* rejected, unresolved, or too many redirects
FailsUnsent(code) ==
    /\ fetch = "requesting"
    /\ code = "INVALID_DOWNLOAD_REFERENCE"
    /\ UNCHANGED requested

\* a 4xx or a redirect without location; a 5xx, timeout or connection error;
\* more than max_bytes
FailsAsked(code) ==
    /\ Request
    /\ code \in {"INVALID_DOWNLOAD_REFERENCE", "OBJECT_STORAGE_TEMPORARILY_UNAVAILABLE",
                 "FILE_TOO_LARGE"}

FailsVerified(code) ==
    /\ fetch = "served" /\ file # "right"
    /\ code = "CONTENT_HASH_MISMATCH"
    /\ UNCHANGED requested

FetchFails(code) == FailsUnsent(code) \/ FailsAsked(code) \/ FailsVerified(code)

\* Faulty variant: the file is only unlinked at the end of the with-block.
CloseIfOpen ==
    /\ fetch' = "closed"
    /\ file' = IF fetch = "open" THEN "absent" ELSE file
    /\ UNCHANGED <<url, hops>>

\* leaving the with-block of fetch_source, in whatever way (no-op outside it)
Close ==
    /\ fetch' = "closed"
    /\ file' = "absent"
    /\ UNCHANGED <<url, hops>>

=============================================================================
