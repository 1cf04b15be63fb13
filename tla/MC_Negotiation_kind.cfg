CONSTANTS
    Transceivers <- MCTransceivers
    LocalLists <- MCLocalLists
    RemoteOffers <- MCRemoteOffers
    SessionIds = {1}
    Versions = {5}
    NoMid = NoMid
    EmptyMid = EmptyMid
    NoAnswer = NoAnswer

SPECIFICATION Spec

INVARIANT AnswerKindMatchesOffer
