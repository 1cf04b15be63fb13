CONSTANTS
    Transceivers <- MCTransceivers
    LocalLists <- MCLocalLists
    RemoteOffers <- MCAnswerOffers
    SessionIds = {1}
    Versions = {5}
    NoMid = NoMid
    EmptyMid = EmptyMid
    NoAnswer = NoAnswer

SPECIFICATION Spec

INVARIANT CandidateAdvertised
