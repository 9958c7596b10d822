----------------------------- MODULE VectorPusch -----------------------------
(* The vector tests of the PUSCH: processor, decoder, demodulator, estimators. *)
EXTENDS VectorSteps

(* pusch_processor_vectortest.cpp *)

GenericPuschDecoder ==
    OrNull(<<"ldpc_decoder_factory", "ldpc_rate_dematcher_factory", "segmenter_rx_factory",
             "pusch_dec_factory">>, {"demux_factory"})

HwPuschDecoder == Device("bbdev_accelerator", {"segmenter_rx_factory"})

Acc100PuschDecoder ==
    OrNull(<<"segmenter_rx_factory">>, {"demux_factory"})
    \o HwPuschDecoder
    \o OrNull(<<"hw_decoder_factory", "pusch_dec_factory">>, {"bbdev_accelerator"})

EmptyPuschDecoder == OrNull(<<"pusch_dec_factory">>, {"demux_factory"})

PuschProcessorFactory(decoder) ==
    OrNull(<<"prg_factory", "low_papr_sequence_gen_factory", "chan_demodulation_factory",
             "evm_calc_factory", "crc_calc_factory", "short_block_det_factory",
             "dft_factory", "ta_estimator_factory", "port_chan_estimator_factory",
             "dmrs_pusch_chan_estimator_factory", "eq_factory", "precoding_factory",
             "pusch_demod_factory", "demux_factory">>, {})
    \o decoder
    \o OrNull(<<"polar_dec_factory", "uci_dec_factory", "pusch_proc_factory">>,
              {"pusch_dec_factory"})

\* Mutant: the flag is not read.
PuschProcessorSetUpUnskipped(decoder, hardware) ==
    PuschProcessorFactory(decoder)
    \o Check({"pusch_proc_factory"})
    \o Asserted(<<"pusch_proc", "pdu_validator">>)

PuschProcessorSetUp(decoder, hardware) ==
    PuschProcessorFactory(decoder)
    \o (IF hardware THEN SkipWithoutDevice ELSE <<>>)
    \o Check({"pusch_proc_factory"})
    \o Asserted(<<"pusch_proc", "pdu_validator">>)

\* That the SINR is normal is checked, the rest of the channel state and the statistics
\* of the decoder are not.  Of a case with UCI CSI Part 2 is not compared, and of one
\* without nobody looks whether UCI was notified.
PuschProcessorVectortest(uci) ==
    Valid("config")
    \o Run({"pusch_proc"}, {"tb_crc_ok", "data", "normal sinr", "other csi", "ldpc_decoder_stats"}
                           \cup IF uci THEN {"harq_ack", "csi_part1", "csi_part2"}
                                ELSE {"unexpected uci"})
    \o Expect({"tb_crc_ok"}) \o Expect({"data"}) \o Expect({"normal sinr"})
    \o (IF uci THEN Expect({"harq_ack"}) \o Expect({"csi_part1"}) ELSE <<>>)

\* Of a grid of zeros the data that process writes is not compared, either.
PuschProcessorVectortestZero ==
    Valid("config")
    \o Run({"pusch_proc"}, {"tb_crc_ok", "data of zeros", "infinite sinr", "other csi",
                            "ldpc_decoder_stats", "harq_ack", "csi_part1", "csi_part2"})
    \o Expect({"tb_crc_ok"}) \o Expect({"infinite sinr"})
    \o Expect({"harq_ack"}) \o Expect({"csi_part1"})

PuschProcessor ==
    File(<<>>,
         <<PuschProcessorSetUp(GenericPuschDecoder, FALSE) \o PuschProcessorVectortest(TRUE),
           PuschProcessorSetUp(GenericPuschDecoder, FALSE) \o PuschProcessorVectortest(FALSE),
           PuschProcessorSetUp(EmptyPuschDecoder, FALSE) \o PuschProcessorVectortestZero,
           PuschProcessorSetUp(Acc100PuschDecoder, TRUE) \o PuschProcessorVectortest(TRUE)>>,
         {}, {"csi_part2", "unexpected uci", "data of zeros", "other csi", "ldpc_decoder_stats"})

(* pusch_decoder_vectortest.cpp: one main function. *)

GenericDecoder ==
    Fatal(<<"crc_calculator_factory", "ldpc_decoder_factory", "ldpc_rate_dematcher_factory",
            "segmenter_rx_factory">>)

\* With this decoder a missing device ends the program: its type was asked for.
Acc100Decoder ==
    Fatal(<<"crc_calculator_factory", "segmenter_rx_factory", "dpdk_interface",
            "bbdev_accelerator", "harq_buffer_context", "hw_decoder_factory">>)

\* One redundancy version of a block.
Retransmission ==
    Fatal(<<"buffer">>)
    \o Run({"decoder", "buffer"}, {"tb_crc_ok", "rx_tb", "ldpc_decoder_stats"})
    \o ExpectFatal({"tb_crc_ok"}) \o ExpectFatal({"rx_tb"}) \o ExpectFatal({"ldpc_decoder_stats"})

PuschDecoderCase ==
    ValidFatal("llrs") \o ValidFatal("transport_block") \o ValidFatal("number of llrs")
    \o Fatal(<<"pool">>)
    \o Retransmission \o Retransmission

PuschDecoderMain(factory) ==
    File(factory \o Fatal(<<"pusch_dec_factory", "decoder">>), <<PuschDecoderCase>>, {}, {})

(* pusch_demodulator_vectortest.cpp: the demodulator is not checked. *)

PuschDemodulatorSetUp ==
    Asserted(<<"equalizer_factory", "demod_factory", "evm_calc_factory", "prg_factory",
               "dft_factory", "precoding_factory", "pusch_demod_factory">>)
    \o Unchecked(<<"demodulator">>, {})

\* There must be provisional statistics and an EVM: their values are not compared.
PuschDemodulatorUnittest ==
    Run({"demodulator"}, {"notifications", "sinr", "codeword", "scrambling",
                          "provisional values", "evm value"})
    \o Expect({"notifications"}) \o Expect({"sinr"})
    \o Expect({"codeword"}) \o Expect({"scrambling"})

PuschDemodulator ==
    File(<<>>, <<PuschDemodulatorSetUp \o PuschDemodulatorUnittest>>, {"demodulator"},
         {"provisional values", "evm value"})

(* ulsch_demultiplex_vectortest.cpp *)

UlschDemultiplexSetUp == Check({"factory"}) \o Asserted(<<"demultiplexer">>)

UlschDemultiplexAllFromVector ==
    Run({"demultiplexer"}, {"sch_data", "harq_ack", "csi_part1", "csi_part2"})
    \o Expect({"sch_data"}) \o Expect({"harq_ack"}) \o Expect({"csi_part1"}) \o Expect({"csi_part2"})

UlschDemultiplex ==
    File(Unchecked(<<"factory">>, {}),
         <<UlschDemultiplexSetUp \o UlschDemultiplexAllFromVector>>, {}, {})

(* dmrs_pusch_estimator_vectortest.cpp *)

DmrsPuschEstimatorSetUp ==
    Asserted(<<"prg_factory", "low_papr_sequence_gen_factory", "dft_factory",
               "ta_estimator_factory", "port_estimator_factory", "estimator_factory",
               "port_estimator_spy_factory", "estimator_interface_factory">>)

\* The executor of the estimator is inline: it has notified when estimate returns.
DmrsPuschEstimatorCreation ==
    Asserted(<<"estimator">>) \o SkipSomeCases \o Valid("ports match layers")
    \o Run({"estimator"}, {"notification", "ch_estimates", "masked estimates", "powers"})
    \o Expect({"notification"}) \o Expect({"ch_estimates"}) \o Expect({"masked estimates"})

DmrsPuschEstimatorInterface ==
    Asserted(<<"estimator">>)
    \o Run({"estimator"}, {"notification", "metrics", "csi"})
    \o Expect({"notification"}) \o Expect({"metrics"}) \o Expect({"csi"})

DmrsPuschEstimator ==
    File(<<>>, <<DmrsPuschEstimatorSetUp \o DmrsPuschEstimatorCreation,
                 DmrsPuschEstimatorSetUp \o DmrsPuschEstimatorInterface>>, {}, {"powers"})

(* port_channel_estimator_vectortest.cpp *)

ChannelEstSetUpTestSuite == Asserted(<<"dft_factory", "ta_estimator_factory", "ch_est_factory">>)

ChannelEstSetUp == Check({"ch_est_factory"}) \o Asserted(<<"ch_estimator">>)

ChannelEstTest ==
    Valid("layers, ports and sizes")
    \o Run({"ch_estimator"}, {"estimates", "epre", "noise_var", "snr", "ta", "cfo", "rsrp"})
    \o Expect({"estimates"}) \o Expect({"epre"}) \o Expect({"noise_var"}) \o Expect({"snr"})
    \o Expect({"ta"}) \o Expect({"cfo"}) \o Expect({"rsrp"})

PortChannelEstimator ==
    File(ChannelEstSetUpTestSuite, <<ChannelEstSetUp \o ChannelEstTest>>, {}, {})

(* channel_equalizer_vectortest.cpp *)

ChannelEqualizerSetUp == Asserted(<<"equalizer_factory", "test_equalizer">>) \o SkipSomeCases

Equalize == Run({"test_equalizer"}, {"eq_symbols", "eq_noise_vars"})

ChannelEqualizerTest == Equalize \o Expect({"eq_symbols"}) \o Expect({"eq_noise_vars"})

\* "Skip assertions, the test shall not abort."
ChannelEqualizerOneZeroNvar == Equalize

\* Estimates that are zero, infinite or not numbers, and noise variances that are
\* infinite, not numbers or negative, with what is expected of them.
ChannelEqualizerZeroEst == ChannelEqualizerTest
ChannelEqualizerNanNvar == ChannelEqualizerTest

ChannelEqualizer ==
    File(<<>>, <<ChannelEqualizerSetUp \o ChannelEqualizerTest,
                 ChannelEqualizerSetUp \o ChannelEqualizerZeroEst,
                 ChannelEqualizerSetUp \o ChannelEqualizerNanNvar>>, {}, {})

\* The one test of the same fixture that compares nothing.
ChannelEqualizerUnasserted ==
    File(<<>>, <<ChannelEqualizerSetUp \o ChannelEqualizerOneZeroNvar>>, {},
         {"eq_symbols", "eq_noise_vars"})

(* demodulation_mapper_vectortest.cpp *)

DemodulatorSetUp ==
    Check({"factory"}) \o Asserted(<<"demodulator">>)
    \o Valid("sizes") \o Valid("noise variances")

DemodulatorTest ==
    Valid("hard bits")
    \o Run({"demodulator"}, {"soft_bits", "hard_bits"})
    \o Expect({"soft_bits"}) \o Expect({"hard_bits"})

\* Noise variances of some symbols that are zero, infinite, negative or not numbers; the
\* other symbols must not suffer.
DemodulatorNoise ==
    Run({"demodulator"}, {"bad symbols", "other symbols"})
    \o Expect({"bad symbols"}) \o Expect({"other symbols"})

\* Symbols that are infinite, zero or not numbers.
DemodulatorSymbol == DemodulatorNoise

DemodulationMapper ==
    File(Asserted(<<"factory">>),
         <<DemodulatorSetUp \o DemodulatorTest, DemodulatorSetUp \o DemodulatorNoise,
           DemodulatorSetUp \o DemodulatorSymbol>>, {}, {})

(* ulsch_info_vectortest.cpp, pusch_tpmi_select_vectortest.cpp: functions. *)

\* What is said of the transport block of a PUSCH without data is not compared.
UlschInfo ==
    File(<<>>, <<Run({}, {"info", "sch"}) \o Expect({"sch"}) \o Expect({"info"}),
                 Run({}, {"info", "sch without data"}) \o Expect({"info"})>>, {},
         {"sch without data"})
PuschTpmiSelect == File(<<>>, <<Run({}, {"info"}) \o Expect({"info"})>>, {}, {})
=============================================================================
