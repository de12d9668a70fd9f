\* A card that never fails; the process may still be killed.
SPECIFICATION Spec
CONSTANTS
    Code = {en, fr, de}
    English = en
    OtherForm = OtherForm
    Empty = Empty
    Absent = Absent
    LangEvery = 2
    RegistryEvery = 4
    Faults = {}
INVARIANTS SavedLanguageSurvives
