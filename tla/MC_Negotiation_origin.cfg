CONSTANTS
    Transceivers <- MCTransceivers
    LocalLists <- MCLocalLists
    RemoteOffers <- MCRemoteOffers
    SessionIds = {1, 2}
    Versions = {3, 4}
    NoMid = NoMid
    EmptyMid = EmptyMid
    NoAnswer = NoAnswer

SPECIFICATION Spec

INVARIANT AnswerVersionIncrements
