\* Two connections; one carries every kind of request, the other relays.
SPECIFICATION Spec
CONSTANT c1 = c1
CONSTANT c2 = c2
CONSTANT Conns <- MCConns
CONSTANT Inputs <- MCInputs
CONSTANT BackendStatuses <- MCBackendStatuses
CONSTANT Files <- MCFiles
CONSTANT Html <- MCHtml
CONSTANT Uuids <- MCUuids
INVARIANT TypeOK
INVARIANT GaugesTrackRequests
INVARIANT CountedAsSent
INVARIANT ProxiedIsLabelled
INVARIANT RedirectsEnd
INVARIANT RefusedOnlyUnprobed
PROPERTY DrainEnds
